---------------------------- MODULE Spec2Model ----------------------------
(***************************************************************************)
(* Verification model of the LTE-Cell-Scanner acquisition pipeline         *)
(* (src/src/searcher.cpp) and of the display thread of LTE-Tracker.        *)
(*                                                                         *)
(*   Spec     peak_search: the find-maximum / emit / suppress loop over    *)
(*            the collapsed PSS correlation matrix.                        *)
(*   SpecSss  sss_detect: CP / half-frame decision, frame_start and the    *)
(*            second threshold gate.                                       *)
(*   SpecMib  decode_mib: the blind sweep over frame timing guesses and    *)
(*            port counts, the CRC mask test and the MIB unpacking.        *)
(*   SpecMibSfn  the same sweep over every value of the eight SFN bits.    *)
(*   SpecPbch pbch_extract: the resource elements collected per symbol.    *)
(*   SpecPpm  sampling_ppm_f_search_set_by_pss: moving correlation,        *)
(*            candidate reservation, the period walk and the PPM / set     *)
(*            aggregation.                                                 *)
(*   SpecAgg  the outlier branch of the PPM aggregation over a store of    *)
(*            estimates.                                                   *)
(*   SpecAcq  the stages that are handed the capture buffer: xc_correlate  *)
(*            with its OpenMP workers, the read-only stages and filter_my. *)
(*   SpecHex  ce_interp_hex: the triangle walk between two RS rows, with   *)
(*            the 72 subcarriers and the RS step 6 of the code.            *)
(*   SpecGetce  sss_detect_getce_sss: the PSS and SSS windows, with the    *)
(*            lengths of the code.                                         *)
(*   SpecDisp display_thread (src/src/display_thread.cpp): the mutexes     *)
(*            held along the refresh loop.                                 *)
(*                                                                         *)
(* Powers are non-negative integers; the half-frame length 9600 and the    *)
(* suppression arm 274 are scaled down to NSamp and SuppArm so that every  *)
(* wrap-around and overlap case is enumerated.  Real-valued quantities are *)
(* kept exact: dB factors as parts per million, frame_start as an integer  *)
(* multiple of 1/FsScale.                                                  *)
(***************************************************************************)
EXTENDS Integers, Sequences, FiniteSets, TLC

(***************************************************************************)
(* Bounds of the model.                                                    *)
(***************************************************************************)
\* Length of one PSS period in the combined correlation (9600 in the code).
NSamp == 5
\* Half-width of the same-PSS suppression window (274 in the code).
SuppArm == 1
\* Largest delay-spread arm ds_comb_arm that is tried.
MaxArm == 1
\* Size of the frequency search set.
NFreq == 2
\* Largest number of non-zero peaks placed above the floor of the matrix.
MaxPeaks == 1

\* Number of n_id_1 hypotheses of the SSS detector (168 in the code).
NId1 == 2
\* fc_programmed, in the unit in which carrier frequencies are counted; k_factor
\* is held as the numerator of a fraction with this denominator.
KDen == 4

\* Number of PSS periods in the capture buffer (16 in the code).
NumPeriods == 5
\* Half-width of the window around a predicted hit (32 in the code).
MaxOffset == 1
\* len_half_store of the moving correlation (64 in the code).
HalfStore == 1
\* Length of a time-domain PSS template (137 in the code).
LenPss == 2
\* max_reserve_per_pss (8 in the code).
MaxReserve == 1
\* The threshold th on the squared correlation (25*265.1154 in the code).
Th == 4
\* Largest number of PPM estimates handed to the outlier rule.
MaxEst == 8
\* Length of the capture buffer.
NCap == 4
\* Number of workers of the parallel loop of xc_correlate.
NWorkers == 2
\* Number of routines called on the capture buffer after xc_correlate.
\* The largest number of tracked cells in the list.
MaxTracked == 4

MaxCalls == 2

\* Number of PSS sequences, the rows of the correlation matrices.
NPss == 3
\* Width of the uint16 loop counter of the refinement loop.
Uint16Mod == 65536
\* The emit loop is followed for one emission more than the 3*NSamp bins.
MaxCells == (NPss * NSamp) + 1

PowSet == {2, 16}
FloorSet == {0, 1}
ZSet == {0, 1, 5}
HotSet == {0, 1}

Rows == 0 .. (NPss - 1)
Cols == 0 .. (NSamp - 1)
Bins == Rows \X Cols

VARIABLES
  xc_incoherent_collapsed_pow,  \* input: [Rows -> [Cols -> Nat]]
  xc_incoherent_collapsed_frq,  \* input: [Rows -> [Cols -> 0..NFreq-1]]
  Z_th1,                        \* input: [Cols -> Nat]
  xc_incoherent_single,         \* input: [Rows -> [Cols -> [0..NFreq-1 -> Nat]]]
  ds_comb_arm,                  \* input: uint8
  xc_incoherent_working,        \* local copy that the loop destroys
  cells,                        \* output list of Cell records
  peak_hist,                    \* <<peak_n_id_2, peak_ind>> of every emission
  pc,                           \* "idle" | "loop" | "done"
  \* sss_detect
  cell,                         \* input: Cell from peak_search
  thresh2_n_sigma,              \* input
  sampling_carrier_twist,       \* input
  tdd_flag,                     \* input: 0 FDD, 1 TDD
  k_factor,                     \* in/out: numerator of k_factor over KDen
  log_lik_nrm,                  \* [0..NId1-1 -> [0..1 -> Int]], from sss_detect_ml
  log_lik_ext,                  \* [0..NId1-1 -> [0..1 -> Int]], from sss_detect_ml
  frame_start,                  \* local of sss_detect, in units of 1/FsScale
  cell_out,                     \* returned Cell
  sss_pc,                       \* "idle" | "call" | "done"
  \* decode_mib
  mib_cell,                     \* input: Cell from the earlier stages
  mib_cell_out,                 \* the local cell_out, returned at the end
  frame_timing_guess,           \* outer loop counter
  n_ports_pre,                  \* inner loop counter
  c_est,                        \* decoded block of the last attempt, 40 bits
  crc_est,                      \* CRC of its payload, before the port mask
  mib_attempts,                 \* <<g, n_ports, match>> of every attempt
  mib_pc,                       \* "idle" | "run" | "done"
  \* pbch_extract
  pbch_cell,                    \* input: Cell
  fr,                           \* frame loop counter
  sym,                          \* symbol loop counter
  idx,                          \* number of elements written
  pbch_sym,                     \* grid positions of the elements written
  pbch_pc,                      \* "idle" | "loop" | "done" | "assert"
  \* sampling_ppm_f_search_set_by_pss
  pss_train,                    \* input: the hit train of every template
  fo_search_set,                \* in/out: the frequency search set
  ppm,                          \* output
  hit_pss_fo_set_idx,           \* templates that are followed
  hit_time_idx,                 \* their latest hit positions
  corr_val,                     \* and the correlation there
  time_location,                \* one row of hit positions per PSS period
  hit_corr_val,                 \* one row of correlations per PSS period
  time_location_invalid_record, \* one row of invalid marks per PSS period
  pss_count,                    \* index of the last row
  ppm_pc,                        \* "idle" | "moving" | "reserve" | "walk" |
                                \* "estimate" | "done" | "abort"
  \* the branch for three or more estimates: ppm_store, its value on entry
  ppm_store,
  ppm_store_in,
  extra_frequency_flag,
  agg_pc,
  \* xc_correlate and the other routines on the capture buffer
  capbuf,
  capbuf_filled,
  sampling_twist,
  k_factor_in,
  k_factor_io,
  xc,
  temp,
  xc_foi,
  xc_t,
  share,
  priv_k,
  priv_acc,
  rd,
  wr,
  xc_pc,
  stage_out,
  n_calls,
  \* ce_interp_hex: the walk between two RS rows
  hex_shift,
  spacing,
  triangle,
  top_row_last_used,
  bot_row_last_used,
  x_offset,
  painted,
  hex_pc,
  \* sss_detect_getce_sss: the windows read around each PSS
  getce_ind,
  getce_tdd_flag,
  peak_loc,
  pss_loc_set,
  getce_k,
  pss_dft_location,
  sss_ext_location,
  sss_nrm_location,
  getce_pc,
  \* display_thread: position, mutexes held, list iterator
  disp_pc,
  disp_held,
  disp_it,
  n_tracked,
  pause

peak_vars == <<xc_incoherent_collapsed_pow, xc_incoherent_collapsed_frq, Z_th1,
               xc_incoherent_single, ds_comb_arm, xc_incoherent_working,
               cells, peak_hist, pc>>

sss_vars == <<cell, thresh2_n_sigma, sampling_carrier_twist, tdd_flag, k_factor,
              log_lik_nrm, log_lik_ext, frame_start, cell_out, sss_pc>>

mib_vars == <<mib_cell, mib_cell_out, frame_timing_guess, n_ports_pre, c_est,
              crc_est, mib_attempts, mib_pc>>

\* What each routine leaves alone: the state of the other routines.
pbch_vars == <<pbch_cell, fr, sym, idx, pbch_sym, pbch_pc>>

ppm_vars == <<pss_train, fo_search_set, ppm, hit_pss_fo_set_idx, hit_time_idx,
              corr_val, time_location, hit_corr_val, time_location_invalid_record,
              pss_count, ppm_pc>>

agg_vars == <<ppm_store, ppm_store_in, extra_frequency_flag, agg_pc>>

stage_vars == <<stage_out, n_calls>>

acq_vars == <<capbuf, capbuf_filled, sampling_twist, k_factor_in, k_factor_io, xc,
              temp, xc_foi, xc_t, share, priv_k, priv_acc, rd, wr, xc_pc,
              stage_vars>>

hex_vars == <<hex_shift, spacing, triangle, top_row_last_used, bot_row_last_used,
              x_offset, painted, hex_pc>>

getce_vars == <<getce_ind, getce_tdd_flag, peak_loc, pss_loc_set, getce_k, pss_dft_location,
                sss_ext_location, sss_nrm_location, getce_pc>>

disp_vars == <<disp_pc, disp_held, disp_it, n_tracked, pause>>

outside_peak == <<sss_vars, mib_vars, pbch_vars, ppm_vars, agg_vars, acq_vars, hex_vars, getce_vars, disp_vars>>
outside_sss == <<peak_vars, mib_vars, pbch_vars, ppm_vars, agg_vars, acq_vars, hex_vars, getce_vars, disp_vars>>
outside_mib == <<peak_vars, sss_vars, pbch_vars, ppm_vars, agg_vars, acq_vars, hex_vars, getce_vars, disp_vars>>
outside_pbch == <<peak_vars, sss_vars, mib_vars, ppm_vars, agg_vars, acq_vars, hex_vars, getce_vars, disp_vars>>
outside_acq == <<peak_vars, sss_vars, mib_vars, pbch_vars, ppm_vars, agg_vars, hex_vars, getce_vars, disp_vars>>
outside_hex == <<peak_vars, sss_vars, mib_vars, pbch_vars, ppm_vars, agg_vars, acq_vars, getce_vars, disp_vars>>
outside_getce == <<peak_vars, sss_vars, mib_vars, pbch_vars, ppm_vars, agg_vars, acq_vars, hex_vars, disp_vars>>
outside_disp == <<peak_vars, sss_vars, mib_vars, pbch_vars, ppm_vars, agg_vars, acq_vars, hex_vars, getce_vars>>
vars == <<peak_vars, sss_vars, mib_vars, pbch_vars, ppm_vars, agg_vars, acq_vars, hex_vars, getce_vars, disp_vars>>

outside_ppm == <<peak_vars, sss_vars, mib_vars, pbch_vars, agg_vars, acq_vars, hex_vars, getce_vars, disp_vars>>

(***************************************************************************)
(* Helpers.                                                                *)
(***************************************************************************)
SetMax(S) == CHOOSE x \in S : \A y \in S : y <= x
SetMin(S) == CHOOSE x \in S : \A y \in S : x <= y

\* itpp_ext::matlab_mod(k,n): remainder with the sign of n, in [0,n) for n>0.
matlab_mod(k, n) == k % n

\* itpp::mod(k,n) == k - n*floor(k/n).
itpp_mod(k, n) == k - (n * (k \div n))

\* udb10(v) = 10^(v/10), in parts per million, for the two values used.
udb10ppm(v) == CASE v = -8 -> 158489
                 [] v = -12 -> 63096

\* x < p * udb10(v)
BelowDb(x, p, v) == x * 1000000 < p * udb10ppm(v)

\* Circular distance of two sample indices modulo NSamp.
CircDist(a, b) == LET d == (a - b) % NSamp IN IF d <= NSamp - d THEN d ELSE NSamp - d

\* One frequency unit per step, starting one step below zero.
f_search_set == [f \in 0 .. (NFreq - 1) |-> f - 1]

(***************************************************************************)
(* Cell record.  Fields that a stage has not assigned hold the value the   *)
(* constructor leaves in them.                                             *)
(***************************************************************************)
UnsetInt == -1
\* NAN, held as a number that no computation of the model produces.
NaN == -2147483647
CpUnknown == "UNKNOWN"
PhichUnknown == "UNKNOWN"

Cell == [fc_requested |-> NaN, fc_programmed |-> NaN, pss_pow |-> NaN,
         ind |-> NaN, freq |-> NaN, n_id_2 |-> UnsetInt,
         n_id_1 |-> UnsetInt, cp_type |-> CpUnknown, frame_start |-> NaN,
         duplex_mode |-> UnsetInt, n_ports |-> UnsetInt, n_rb_dl |-> UnsetInt,
         phich_duration |-> PhichUnknown, phich_resource |-> PhichUnknown,
         sfn |-> UnsetInt]

\* Carrier frequencies, counted in the unit that makes fc_programmed KDen.
fc_requested_val == KDen
fc_programmed_val == KDen

(***************************************************************************)
(* peak_search                                                             *)
(***************************************************************************)
\* -INFINITY: below every power, which are all non-negative.
MinusInfinity == -1

\* max(vec, index): itpp keeps the first maximum (strict > in the scan).
VecMax(v) == SetMax({v[i] : i \in DOMAIN v})
VecArgMax(v) == SetMin({i \in DOMAIN v : v[i] = VecMax(v)})

\* peak_pow_v=max(transpose(working),peak_ind_v): per-row maximum and index.
peak_pow_v(w) == [n \in Rows |-> VecMax(w[n])]
peak_ind_v(w) == [n \in Rows |-> VecArgMax(w[n])]
\* peak_pow=max(peak_pow_v,peak_n_id_2): the value and the row it sits in.
peak_n_id_2_of(w) == VecArgMax(peak_pow_v(w))
peak_pow_of(w) == peak_pow_v(w)[peak_n_id_2_of(w)]
\* peak_ind=peak_ind_v(peak_n_id_2)
peak_ind_First(w) == 0
peak_ind_of(w) == peak_ind_v(w)[peak_n_id_2_of(w)]

\* for (uint16 t=peak_ind-ds_comb_arm;t<=peak_ind+ds_comb_arm;t++)
\* scanned from t with the best so far; best_pow starts at MinusInfinity.
RECURSIVE RefineScan(_, _, _, _, _)
RefineScan(row, t, last, best_pow, best_ind) ==
  IF t > last THEN best_ind
  ELSE LET t_wrap == itpp_mod(t, NSamp)
       IN IF row[t_wrap] > best_pow
          THEN RefineScan(row, t + 1, last, row[t_wrap], t_wrap)
          ELSE RefineScan(row, t + 1, last, best_pow, best_ind)

best_ind_of(single, frq, n, pk_ind, arm) ==
  LET row == [i \in Cols |-> single[n][i][frq[n][pk_ind]]]
      first == (pk_ind - arm) % Uint16Mod
  IN RefineScan(row, first, pk_ind + arm, MinusInfinity, -1)

\* for (t=-274..274) working(peak_n_id_2, matlab_mod(peak_ind+t,9600))=0
CancelSamePssShort(w, p, pk_ind) ==
  [w EXCEPT ![p] = [i \in Cols |->
     IF \E t \in (0 - SuppArm) .. (SuppArm - 1) : i = matlab_mod(pk_ind + t, NSamp)
     THEN 0 ELSE w[p][i]]]
CancelSamePssNoCentre(w, p, pk_ind) ==
  [w EXCEPT ![p] = [i \in Cols |->
     IF \E t \in ((0 - SuppArm) .. SuppArm) \ {0} : i = matlab_mod(pk_ind + t, NSamp)
     THEN 0 ELSE w[p][i]]]
CancelSamePss(w, p, pk_ind) ==
  [w EXCEPT ![p] = [i \in Cols |->
     IF \E t \in (0 - SuppArm) .. SuppArm : i = matlab_mod(pk_ind + t, NSamp)
     THEN 0 ELSE w[p][i]]]

\* for (n=0..3) if (n==peak_n_id_2) continue; for (t=-274..274)
\*   if (working(peak_n_id_2,...)<thresh) working(peak_n_id_2,...)=0
\* The body indexes row peak_n_id_2, not row n.
CancelOtherPss(w, p, pk_ind, pk_pow) ==
  IF \E n \in 0 .. 3 : n # p
  THEN [w EXCEPT ![p] = [i \in Cols |->
          IF (\E t \in (0 - SuppArm) .. SuppArm : i = matlab_mod(pk_ind + t, NSamp))
             /\ BelowDb(w[p][i], pk_pow, -8)
          THEN 0 ELSE w[p][i]]]
  ELSE w

\* for (r<3) for (c<9600) if (working(r,c)<thresh) working(r,c)=0
CancelCrsNone(w, pk_pow) == w
CancelCrs(w, pk_pow) ==
  [r \in Rows |-> [c \in Cols |->
     IF BelowDb(w[r][c], pk_pow, -12) THEN 0 ELSE w[r][c]]]

Suppress(w, p, pk_ind, pk_pow) ==
  CancelCrs(CancelOtherPss(CancelSamePss(w, p, pk_ind), p, pk_ind, pk_pow), pk_pow)

\* Cell cell; ... cells.push_back(cell)
NewCellBestPow(w) ==
  LET p == peak_n_id_2_of(w)
      i == peak_ind_of(w)
      f == xc_incoherent_collapsed_frq[p][i]
      b == best_ind_of(xc_incoherent_single, xc_incoherent_collapsed_frq, p, i, ds_comb_arm)
  IN [Cell EXCEPT !.fc_requested = fc_requested_val,
                  !.fc_programmed = fc_programmed_val,
                  !.pss_pow = IF b = -1 THEN MinusInfinity ELSE xc_incoherent_single[p][b][f],
                  !.ind = b,
                  !.freq = f_search_set[f],
                  !.n_id_2 = p]
NewCell(w) ==
  LET p == peak_n_id_2_of(w)
      i == peak_ind_of(w)
  IN [Cell EXCEPT !.fc_requested = fc_requested_val,
                  !.fc_programmed = fc_programmed_val,
                  !.pss_pow = peak_pow_of(w),
                  !.ind = best_ind_of(xc_incoherent_single, xc_incoherent_collapsed_frq,
                                      p, i, ds_comb_arm),
                  !.freq = f_search_set[xc_incoherent_collapsed_frq[p][i]],
                  !.n_id_2 = p]

\* One pass of the for(;;) body that takes the break.
PeakSearchBreak ==
  /\ pc = "loop"
  /\ peak_pow_of(xc_incoherent_working) < Z_th1[peak_ind_of(xc_incoherent_working)]
  /\ pc' = "done"
  /\ UNCHANGED <<xc_incoherent_collapsed_pow, xc_incoherent_collapsed_frq, Z_th1,
                 xc_incoherent_single, ds_comb_arm, xc_incoherent_working,
                 cells, peak_hist>>
  /\ UNCHANGED outside_peak

\* One pass of the for(;;) body that records a cell and cancels around it.
PeakSearchEmit ==
  /\ pc = "loop"
  /\ Len(cells) < MaxCells
  /\ ~(peak_pow_of(xc_incoherent_working) < Z_th1[peak_ind_of(xc_incoherent_working)])
  /\ cells' = Append(cells, NewCell(xc_incoherent_working))
  /\ peak_hist' = Append(peak_hist, <<peak_n_id_2_of(xc_incoherent_working),
                                      peak_ind_of(xc_incoherent_working)>>)
  /\ xc_incoherent_working' = Suppress(xc_incoherent_working,
                                       peak_n_id_2_of(xc_incoherent_working),
                                       peak_ind_of(xc_incoherent_working),
                                       peak_pow_of(xc_incoherent_working))
  /\ UNCHANGED <<xc_incoherent_collapsed_pow, xc_incoherent_collapsed_frq, Z_th1,
                 xc_incoherent_single, ds_comb_arm, pc>>
  /\ UNCHANGED outside_peak

\* Input matrices: a uniform floor with at most MaxPeaks stronger bins.
PeakMatrices ==
  { [n \in Rows |-> [i \in Cols |->
       IF <<n, i>> \in DOMAIN pk THEN pk[<<n, i>>] ELSE fl]] :
    fl \in FloorSet,
    pk \in UNION { [B -> PowSet] : B \in { X \in SUBSET Bins : Cardinality(X) <= MaxPeaks } } }

\* Threshold vectors: one value everywhere but at index 1.
ZVectors ==
  { [i \in Cols |-> IF i = 1 THEN za ELSE zb] : za \in ZSet, zb \in ZSet }

\* Single-tap correlations: one strong tap per (row, frequency) column.
SingleOf(hot) ==
  [n \in Rows |-> [i \in Cols |-> [f \in 0 .. (NFreq - 1) |->
     IF i = (hot + n + f) % NSamp THEN 2 ELSE 1]]]

FrqPattern == [n \in Rows |-> [i \in Cols |-> (n + i) % NFreq]]

PeakInit ==
  /\ xc_incoherent_collapsed_pow \in PeakMatrices
  /\ xc_incoherent_collapsed_frq = FrqPattern
  /\ Z_th1 \in ZVectors
  /\ \E hot \in HotSet : xc_incoherent_single = SingleOf(hot)
  /\ ds_comb_arm \in 1 .. MaxArm
  /\ xc_incoherent_working = xc_incoherent_collapsed_pow
  /\ cells = << >>
  /\ peak_hist = << >>
  /\ pc = "loop"

(***************************************************************************)
(* sss_detect.  The channel estimation and the likelihood computation      *)
(* (sss_detect_getce_sss, sss_detect_ml) are signal processing on the      *)
(* capture buffer; their result, the two log-likelihood matrices, is an    *)
(* input here.  frame_start is held as an integer multiple of 1/FsScale,   *)
(* which is exact for every k_factor of the form KNum/KDen.                *)
(***************************************************************************)
FsScale == 2 * KDen * KDen

\* 16/FS_LTE*fs_programmed for fs_programmed = FS_LTE/16 = 1.92 MHz.
FsRatioSet == {1}
FsRatio == CHOOSE r \in FsRatioSet : TRUE

HalfFrame == 9600

NId1Set == 0 .. (NId1 - 1)

\* max(max(M)): the largest entry of a likelihood matrix.
MatMax(M) == SetMax({M[t][c] : t \in NId1Set, c \in {0, 1}})
\* max(M.get_col(c))
ColMax(M, c) == SetMax({M[t][c] : t \in NId1Set})
\* max(ll,n_id_1_est): first index of the maximum of column c.
ColArgMax(M, c) == SetMin({t \in NId1Set : M[t][c] = ColMax(M, c)})

\* if (max(max(log_lik_nrm))>max(max(log_lik_ext))) normal else extended
cp_type_flag_of(nrm, ext) == IF MatMax(nrm) > MatMax(ext) THEN 0 ELSE 1
cp_type_of(nrm, ext) == IF cp_type_flag_of(nrm, ext) = 0 THEN "NORMAL" ELSE "EXTENDED"
log_lik_of(nrm, ext) == IF cp_type_flag_of(nrm, ext) = 0 THEN nrm ELSE ext

\* if (max(log_lik.get_col(0))>max(log_lik.get_col(1))) column 0 else column 1
ll_col_of(M) == IF ColMax(M, 0) > ColMax(M, 1) THEN 0 ELSE 1

\* if (sampling_carrier_twist==1) k_factor=(fc_requested-cell.freq)/fc_programmed
k_factor_of(twist, c, k) == IF twist THEN fc_requested_val - c.freq ELSE k

\* The term added to cell.ind, before the factor 16/FS_LTE*fs_programmed*k_factor.
\* The FDD branch has one term for both CP types.
base_term_of(tdd, cp_flag) ==
  IF tdd = 1
  THEN IF cp_flag = 0
       THEN (0 - ((2 * (128 + 9)) + 1)) - 1920 - 2
       ELSE (0 - (2 * (128 + 32))) - 1920 - 2
  ELSE 128 + 9 - 960 - 2

\* frame_start before wrapping, times FsScale, for k_factor = k/KDen.
frame_start_raw(c, tdd, cp_flag, col, k) ==
  (c.ind * FsScale)
  + (base_term_of(tdd, cp_flag) * FsRatio * k * 2 * KDen)
  + (IF col = 1 THEN HalfFrame * k * FsRatio * k * 2 ELSE 0)

\* The wrap interval [-0.5, (2*9600.0-0.5)*16/FS_LTE*fs_programmed*k_factor).
wrap_lo == 0 - (KDen * KDen)
wrap_hi(k) == ((4 * HalfFrame) - 1) * FsRatio * k * KDen

\* WRAP(x,sm,lg): x brought into [sm,lg) by whole multiples of lg-sm.
WRAP(x, sm, lg) == matlab_mod(x - sm, lg - sm) + sm

frame_start_NoWrap(c, tdd, cp_flag, col, k) == frame_start_raw(c, tdd, cp_flag, col, k)
frame_start_of(c, tdd, cp_flag, col, k) ==
  WRAP(frame_start_raw(c, tdd, cp_flag, col, k), wrap_lo, wrap_hi(k))

\* L=concat(cvectorize(log_lik_nrm),cvectorize(log_lik_ext)): the entries
\* of both matrices, indexed by (matrix, row, column).
LIndex == {0, 1} \X NId1Set \X {0, 1}
LEntry(nrm, ext, x) == IF x[1] = 0 THEN nrm[x[2]][x[3]] ELSE ext[x[2]][x[3]]

RECURSIVE SumOver(_, _, _, _)
SumOver(nrm, ext, X, sq) ==
  IF X = {} THEN 0
  ELSE LET x == CHOOSE y \in X : TRUE
           v == LEntry(nrm, ext, x)
       IN (IF sq THEN v * v ELSE v) + SumOver(nrm, ext, X \ {x}, sq)

LCount == Cardinality(LIndex)
LSum(nrm, ext) == SumOver(nrm, ext, LIndex, FALSE)
LSumSq(nrm, ext) == SumOver(nrm, ext, LIndex, TRUE)

\* lik_final>=lik_mean+pow(lik_var,0.5)*thresh2_n_sigma with lik_mean=mean(L)
\* and lik_var=variance(L) (normalised by n-1), both sides multiplied by n
\* and squared.  d is n*(lik_final-lik_mean); the right-hand side is
\* non-negative for the non-negative thresholds used.
gate_Strict(lik_final, nrm, ext, sigma) ==
  LET n == LCount
      d == (n * lik_final) - LSum(nrm, ext)
      v == (n * LSumSq(nrm, ext)) - (LSum(nrm, ext) * LSum(nrm, ext))
  IN d > 0 /\ (d * d) * (n - 1) > (sigma * sigma) * n * v
gate_of(lik_final, nrm, ext, sigma) ==
  LET n == LCount
      d == (n * lik_final) - LSum(nrm, ext)
      v == (n * LSumSq(nrm, ext)) - (LSum(nrm, ext) * LSum(nrm, ext))
  IN d >= 0 /\ (d * d) * (n - 1) >= (sigma * sigma) * n * v

\* The whole of sss_detect after the two likelihood matrices are known.
SssDetect ==
  /\ sss_pc = "call"
  /\ LET cpf == cp_type_flag_of(log_lik_nrm, log_lik_ext)
         ll == log_lik_of(log_lik_nrm, log_lik_ext)
         col == ll_col_of(ll)
         k == k_factor_of(sampling_carrier_twist, cell, k_factor)
         fs == frame_start_of(cell, tdd_flag, cpf, col, k)
         n_id_1_est == ColArgMax(ll, col)
         lik_final == ColMax(ll, col)
     IN /\ k_factor' = k
        /\ frame_start' = fs
        /\ cell_out' =
             IF gate_of(lik_final, log_lik_nrm, log_lik_ext, thresh2_n_sigma)
             THEN [cell EXCEPT !.n_id_1 = n_id_1_est,
                               !.cp_type = cp_type_of(log_lik_nrm, log_lik_ext),
                               !.frame_start = fs,
                               !.duplex_mode = tdd_flag]
             ELSE cell
  /\ sss_pc' = "done"
  /\ UNCHANGED <<cell, thresh2_n_sigma, sampling_carrier_twist, tdd_flag,
                 log_lik_nrm, log_lik_ext>>
  /\ UNCHANGED outside_sss

\* Sample indices handed over by peak_search: the ends of [0,9600), the
\* value left by an empty refinement loop, and the indices next to the
\* point where ind plus a base term changes sign.
IndSet ==
  {-1, 0, 1, HalfFrame - 2, HalfFrame - 1}
  \cup { (0 - base_term_of(t, c)) + e : t \in {0, 1}, c \in {0, 1}, e \in {-1, 0, 1} }

SssCells ==
  { [Cell EXCEPT !.fc_requested = fc_requested_val,
                 !.fc_programmed = fc_programmed_val,
                 !.pss_pow = 16,
                 !.ind = i,
                 !.freq = f_search_set[f],
                 !.n_id_2 = n] :
    i \in IndSet, f \in 0 .. (NFreq - 1), n \in Rows }

\* Likelihoods are non-positive; at most two entries reach the top value.
LLValues == {-3, 0}
LLLow == SetMin(LLValues)
LLHigh == SetMax(LLValues)
LLZero == [t \in NId1Set |-> [c \in {0, 1} |-> LLLow]]
LLPairs ==
  { <<[t \in NId1Set |-> [c \in {0, 1} |-> IF <<0, t, c>> \in W THEN LLHigh ELSE LLLow]],
      [t \in NId1Set |-> [c \in {0, 1} |-> IF <<1, t, c>> \in W THEN LLHigh ELSE LLLow]]>> :
    W \in { X \in SUBSET LIndex : Cardinality(X) <= 2 } }

SigmaSet == {0, 2, 3}

SssInit ==
  /\ cell \in SssCells
  /\ thresh2_n_sigma \in SigmaSet
  /\ sampling_carrier_twist \in BOOLEAN
  /\ tdd_flag \in {0, 1}
  /\ k_factor \in {KDen - 1, KDen + 1}
  /\ \E ll \in LLPairs : log_lik_nrm = ll[1] /\ log_lik_ext = ll[2]
  /\ frame_start = 0
  /\ cell_out = Cell
  /\ sss_pc = "call"

SssIdle ==
  /\ cell = Cell
  /\ thresh2_n_sigma = 0
  /\ sampling_carrier_twist = FALSE
  /\ tdd_flag = 0
  /\ k_factor = KDen
  /\ log_lik_nrm = LLZero
  /\ log_lik_ext = LLZero
  /\ frame_start = 0
  /\ cell_out = Cell
  /\ sss_pc = "idle"

PeakIdle ==
  /\ xc_incoherent_collapsed_pow = [n \in Rows |-> [i \in Cols |-> 0]]
  /\ xc_incoherent_collapsed_frq = FrqPattern
  /\ Z_th1 = [i \in Cols |-> 1]
  /\ xc_incoherent_single = SingleOf(0)
  /\ ds_comb_arm = 1
  /\ xc_incoherent_working = xc_incoherent_collapsed_pow
  /\ cells = << >>
  /\ peak_hist = << >>
  /\ pc = "idle"

(***************************************************************************)
(* decode_mib                                                              *)
(*                                                                         *)
(* Channel estimation, pbch_extract, equalisation, demodulation,           *)
(* descrambling, de-ratematching and Viterbi decoding turn the capture     *)
(* into one 40-bit block c_est per (frame_timing_guess, n_ports); the      *)
(* block of each hypothesis is an input, chosen when its attempt is made,  *)
(* together with the CRC that lte_calc_crc returns for its 24 payload      *)
(* bits.                                                                   *)
(***************************************************************************)
\* Length of the payload c_est(0,23) and of the CRC c_est(24,-1).
PayloadBits == 24
CrcBits == 16
BlockBits == PayloadBits + CrcBits
\* int8 and the modulus of the system frame number.
Int8Mod == 256
SfnMod == 1024
\* The last value of frame_timing_guess and of n_ports_pre.
LastGuess == 3
LastPortsPre == 3

\* Two raised to the power e.
RECURSIVE Pow2(_)
Pow2(e) == IF e = 0 THEN 1 ELSE 2 * Pow2(e - 1)

\* Bit t (0 first, most significant first) of the w-bit number v.
BitOf(v, w, t) == (v \div Pow2((w - 1) - t)) % 2

\* The 24 payload bits that carry bandwidth code bw, PHICH duration bit d,
\* PHICH resource code r and sfn_high s; the ten spare bits are zero.
PayloadOf(bw, d, r, s) ==
  [t \in 0 .. (PayloadBits - 1) |->
     IF t < 3 THEN BitOf(bw, 3, t)
     ELSE IF t = 3 THEN d
     ELSE IF t < 6 THEN BitOf(r, 2, t - 4)
     ELSE IF t < 14 THEN BitOf(s, 8, t - 6)
     ELSE 0]

\* A decoded block: payload followed by the received CRC bits.
BlockOf(pl, rx) ==
  [t \in 0 .. (BlockBits - 1) |-> IF t < PayloadBits THEN pl[t] ELSE rx[t - PayloadBits]]

ZeroBlock == [t \in 0 .. (BlockBits - 1) |-> 0]
ZeroCrc == [t \in 0 .. (CrcBits - 1) |-> 0]

\* c_est(24,-1)
crc_rx_of(c) == [t \in 0 .. (CrcBits - 1) |-> c[PayloadBits + t]]

\* const uint8 n_ports=(n_ports_pre==3)?4:n_ports_pre;
n_ports_Rev(pre) == IF pre = 1 THEN 4 ELSE IF pre = 3 THEN 1 ELSE pre
n_ports_of(pre) == IF pre = 3 THEN 4 ELSE pre

\* Apply CRC mask: every bit inverted for two ports, every second bit
\* starting at t=1 for four ports.
crc_mask_Even(crc, n_ports) ==
  [t \in DOMAIN crc |->
     IF n_ports = 2 /\ t < 16 THEN 1 - crc[t]
     ELSE IF n_ports = 4 /\ t % 2 = 0 THEN 1 - crc[t]
     ELSE crc[t]]
crc_mask_of(crc, n_ports) ==
  [t \in DOMAIN crc |->
     IF n_ports = 2 /\ t < 16 THEN 1 - crc[t]
     ELSE IF n_ports = 4 /\ t >= 1 /\ (t - 1) % 2 = 0 THEN 1 - crc[t]
     ELSE crc[t]]

\* if (crc_est==c_est(24,-1))
crc_match(crc, c, n_ports) == crc_mask_of(crc, n_ports) = crc_rx_of(c)

\* bw_packed=c(0)*4+c(1)*2+c(2) and the switch over it; there is no case
\* for 6 and 7 and no default, so n_rb_dl keeps the value it had.
bw_packed_of(c) == (c[0] * 4) + (c[1] * 2) + c[2]
n_rb_dl_of(old, c) ==
  CASE bw_packed_of(c) = 0 -> 6
    [] bw_packed_of(c) = 1 -> 15
    [] bw_packed_of(c) = 2 -> 25
    [] bw_packed_of(c) = 3 -> 50
    [] bw_packed_of(c) = 4 -> 75
    [] bw_packed_of(c) = 5 -> 100
    [] OTHER -> old

phich_duration_of(c) == IF c[3] # 0 THEN "EXTENDED" ELSE "NORMAL"

phich_res_of(c) == (c[4] * 2) + c[5]
phich_resource_of(c) ==
  CASE phich_res_of(c) = 0 -> "oneSixth"
    [] phich_res_of(c) = 1 -> "half"
    [] phich_res_of(c) = 2 -> "one"
    [] phich_res_of(c) = 3 -> "two"

\* Conversion of an int to int8.
ToInt8(x) == ((x + (Int8Mod \div 2)) % Int8Mod) - (Int8Mod \div 2)

\* int8 sfn_temp=128*c(6)+64*c(7)+32*c(8)+16*c(9)+8*c(10)+4*c(11)+2*c(12)+c(13);
sfn_temp_of(c) ==
  ToInt8((128 * c[6]) + (64 * c[7]) + (32 * c[8]) + (16 * c[9])
         + (8 * c[10]) + (4 * c[11]) + (2 * c[12]) + c[13])

\* cell_out.sfn=itpp_ext::matlab_mod(sfn_temp*4-frame_timing_guess,1024);
sfn_CRem(c, g) ==
  LET k == (sfn_temp_of(c) * 4) - g
  IN IF k < 0 THEN 0 - ((0 - k) % SfnMod) ELSE k % SfnMod
sfn_of(c, g) == matlab_mod((sfn_temp_of(c) * 4) - g, SfnMod)

\* The body of if (crc_est==c_est(24,-1)): every field the MIB sets.
mib_unpack(co, c, g, n_ports) ==
  [co EXCEPT !.n_ports = n_ports,
             !.n_rb_dl = n_rb_dl_of(co.n_rb_dl, c),
             !.phich_duration = phich_duration_of(c),
             !.phich_resource = phich_resource_of(c),
             !.sfn = sfn_of(c, g)]

\* cell_out after one attempt: written only inside the CRC-match branch.
mib_result_Eager(co, crc, c, g, n_ports) ==
  IF crc_match(crc, c, n_ports) THEN mib_unpack(co, c, g, n_ports)
  ELSE [co EXCEPT !.n_ports = n_ports]
mib_result(co, crc, c, g, n_ports) ==
  IF crc_match(crc, c, n_ports) THEN mib_unpack(co, c, g, n_ports) ELSE co

\* Decoder outputs that are tried: every bandwidth code, every PHICH
\* setting, and sfn_high at both ends of its range and on both sides of
\* the largest int8.
SfnFew == {0, (Int8Mod \div 2) - 1, Int8Mod \div 2, Int8Mod - 1}
Payloads ==
  { PayloadOf(bw, 0, 0, 0) : bw \in 0 .. 7 }
  \cup { PayloadOf(3, d, r, 0) : d \in {0, 1}, r \in 0 .. 3 }
  \cup { PayloadOf(3, 0, 0, s) : s \in SfnFew }

\* CRC values of the payload, and the ways the received CRC differs from
\* them: not at all, in every bit, in the bits at odd or at even positions,
\* in the first bit only.
CrcValues ==
  { [t \in 0 .. (CrcBits - 1) |-> 0],
    [t \in 0 .. (CrcBits - 1) |-> IF t < CrcBits \div 2 THEN 1 ELSE 0] }
CrcDiffs ==
  { [t \in 0 .. (CrcBits - 1) |-> 0],
    [t \in 0 .. (CrcBits - 1) |-> 1],
    [t \in 0 .. (CrcBits - 1) |-> t % 2],
    [t \in 0 .. (CrcBits - 1) |-> 1 - (t % 2)],
    [t \in 0 .. (CrcBits - 1) |-> IF t = 0 THEN 1 ELSE 0] }
BitXor(a, b) == [t \in DOMAIN a |-> (a[t] + b[t]) % 2]

\* The blocks, each with the CRC of its payload, that a hypothesis can
\* decode to.
Blocks ==
  { <<BlockOf(pl, BitXor(crc, df)), crc>> :
      pl \in Payloads, crc \in CrcValues, df \in CrcDiffs }

\* For the sweep over sfn_high: every sfn_high with a CRC that matches for
\* one port, and one block that matches for no port count.
SweepBlocks ==
  { <<BlockOf(PayloadOf(3, 0, 0, s), ZeroCrc), ZeroCrc>> : s \in 0 .. (Int8Mod - 1) }
  \cup { <<BlockOf(PayloadOf(0, 0, 0, 0), [t \in 0 .. (CrcBits - 1) |-> IF t = 0 THEN 1 ELSE 0]),
          ZeroCrc>> }

\* One pass of the inner loop body whose CRC test succeeds: unpack, return.
AttemptMatch(B) ==
  /\ mib_pc = "run"
  /\ \E b \in B :
       LET c == b[1]
           crc == b[2]
           n_ports == n_ports_of(n_ports_pre)
       IN /\ crc_match(crc, c, n_ports)
          /\ c_est' = c
          /\ crc_est' = crc
          /\ mib_cell_out' = mib_result(mib_cell_out, crc, c, frame_timing_guess, n_ports)
          /\ mib_attempts' = Append(mib_attempts, <<frame_timing_guess, n_ports, TRUE>>)
  /\ mib_pc' = "done"
  /\ UNCHANGED <<mib_cell, frame_timing_guess, n_ports_pre>>
  /\ UNCHANGED outside_mib

\* One pass of the inner loop body whose CRC test fails: the loops advance,
\* and after the last hypothesis the function returns cell_out.
AttemptMiss(B) ==
  /\ mib_pc = "run"
  /\ \E b \in B :
       LET c == b[1]
           crc == b[2]
           n_ports == n_ports_of(n_ports_pre)
       IN /\ ~crc_match(crc, c, n_ports)
          /\ c_est' = c
          /\ crc_est' = crc
          /\ mib_cell_out' = mib_result(mib_cell_out, crc, c, frame_timing_guess, n_ports)
          /\ mib_attempts' = Append(mib_attempts, <<frame_timing_guess, n_ports, FALSE>>)
  /\ IF n_ports_pre < LastPortsPre
     THEN /\ n_ports_pre' = n_ports_pre + 1
          /\ UNCHANGED <<frame_timing_guess, mib_pc>>
     ELSE IF frame_timing_guess < LastGuess
     THEN /\ n_ports_pre' = 1
          /\ frame_timing_guess' = frame_timing_guess + 1
          /\ UNCHANGED mib_pc
     ELSE /\ mib_pc' = "done"
          /\ UNCHANGED <<frame_timing_guess, n_ports_pre>>
  /\ UNCHANGED mib_cell
  /\ UNCHANGED outside_mib

DecodeMibMatch == AttemptMatch(Blocks)
DecodeMibMiss == AttemptMiss(Blocks)
DecodeMibMatchSweep == AttemptMatch(SweepBlocks)
DecodeMibMissSweep == AttemptMiss(SweepBlocks)

\* Cells handed to decode_mib: identity, CP type and timing are known.
MibCells ==
  { [Cell EXCEPT !.fc_requested = fc_requested_val,
                 !.fc_programmed = fc_programmed_val,
                 !.pss_pow = 16,
                 !.ind = 0,
                 !.freq = 0,
                 !.n_id_2 = 0,
                 !.n_id_1 = 0,
                 !.cp_type = cp,
                 !.frame_start = 0,
                 !.duplex_mode = 0] : cp \in {"NORMAL", "EXTENDED"} }

\* Cell cell_out=cell; and the two loop counters at their first values.
MibInit ==
  /\ mib_cell \in MibCells
  /\ mib_cell_out = mib_cell
  /\ frame_timing_guess = 0
  /\ n_ports_pre = 1
  /\ c_est = ZeroBlock
  /\ crc_est = ZeroCrc
  /\ mib_attempts = << >>
  /\ mib_pc = "run"

MibIdle ==
  /\ mib_cell = Cell
  /\ mib_cell_out = Cell
  /\ frame_timing_guess = 0
  /\ n_ports_pre = 1
  /\ c_est = ZeroBlock
  /\ crc_est = ZeroCrc
  /\ mib_attempts = << >>
  /\ mib_pc = "idle"

(***************************************************************************)
(* pbch_extract                                                            *)
(*                                                                         *)
(* pbch_sym holds, for every extracted resource element, the position      *)
(* <<sym_num, sc>> in the time/frequency grid that it was read from.  One  *)
(* step is one pass of the sym loop, the whole sc loop included.           *)
(***************************************************************************)
\* The last values of fr, sym and sc.
LastFr == 3
LastSym == 3
LastSc == 71

\* Cell::n_symb_dl(): 7 OFDM symbols per slot with normal CP, 6 with extended.
n_symb_dl_of(c) == IF c.cp_type = "NORMAL" THEN 7 ELSE 6

\* Cell::n_id_cell()
n_id_cell_of(c) == (3 * c.n_id_1) + c.n_id_2

\* const uint16 m_bit=(cell.cp_type==cp_type_t::NORMAL)?1920:1728;
m_bit_of(c) == IF c.cp_type = "NORMAL" THEN 1920 ELSE 1728

\* const uint8 v_shift_m3=mod(cell.n_id_cell(),3);
v_shift_m3_of(c) == itpp_mod(n_id_cell_of(c), 3)

\* The test in front of continue.
pbch_skip_NoThird(c, sym_, sc) ==
  itpp_mod(sc, 3) = v_shift_m3_of(c) /\ (sym_ = 0 \/ sym_ = 1)
pbch_skip(c, sym_, sc) ==
  /\ itpp_mod(sc, 3) = v_shift_m3_of(c)
  /\ (sym_ = 0 \/ sym_ = 1 \/ (sym_ = 3 /\ n_symb_dl_of(c) = 6))

\* uint16 sym_num=fr*10*2*n_symb_dl+n_symb_dl+sym;
sym_num_NextFrame(c, fr_, sym_) ==
  ((fr_ + 1) * 10 * 2 * n_symb_dl_of(c)) + n_symb_dl_of(c) + sym_
sym_num_of(c, fr_, sym_) == (fr_ * 10 * 2 * n_symb_dl_of(c)) + n_symb_dl_of(c) + sym_

\* The sc loop from sc on, for one fr and sym: the elements appended.
RECURSIVE ScLoop(_, _, _, _)
ScLoop(c, fr_, sym_, sc) ==
  IF sc > LastSc THEN << >>
  ELSE IF pbch_skip(c, sym_, sc) THEN ScLoop(c, fr_, sym_, sc + 1)
  ELSE <<<<sym_num_of(c, fr_, sym_), sc>>>> \o ScLoop(c, fr_, sym_, sc + 1)

\* One pass of the sym loop.
PbchExtractSym ==
  /\ pbch_pc = "loop"
  /\ fr <= LastFr
  /\ pbch_sym' = pbch_sym \o ScLoop(pbch_cell, fr, sym, 0)
  /\ idx' = idx + Len(ScLoop(pbch_cell, fr, sym, 0))
  /\ IF sym < LastSym
     THEN sym' = sym + 1 /\ fr' = fr
     ELSE sym' = 0 /\ fr' = fr + 1
  /\ UNCHANGED <<pbch_cell, pbch_pc>>
  /\ UNCHANGED outside_pbch

\* ASSERT(idx==m_bit/2); and the return.
PbchExtractReturn ==
  /\ pbch_pc = "loop"
  /\ fr > LastFr
  /\ pbch_pc' = IF idx = m_bit_of(pbch_cell) \div 2 THEN "done" ELSE "assert"
  /\ UNCHANGED <<pbch_cell, fr, sym, idx, pbch_sym>>
  /\ UNCHANGED outside_pbch

\* The rows of tfg_try: ofdm_sym_set runs from ofdm_sym_set_start to
\* ofdm_sym_set_start+3*10*2*n_symb_dl+2*n_symb_dl-1.
tfg_try_rows(c) == (3 * 10 * 2 * n_symb_dl_of(c)) + (2 * n_symb_dl_of(c))

\* The number of physical layer cell identity groups.
NumNId1 == 168

\* Cells handed to pbch_extract: every cell identity 0..503, both CP types.
PbchCells ==
  { [Cell EXCEPT !.fc_requested = fc_requested_val,
                 !.fc_programmed = fc_programmed_val,
                 !.pss_pow = 16,
                 !.ind = 0,
                 !.freq = 0,
                 !.n_id_2 = n2,
                 !.n_id_1 = n1,
                 !.cp_type = cp,
                 !.frame_start = 0,
                 !.duplex_mode = 0] :
    n2 \in Rows, n1 \in 0 .. (NumNId1 - 1), cp \in {"NORMAL", "EXTENDED"} }

PbchInit ==
  /\ pbch_cell \in PbchCells
  /\ fr = 0
  /\ sym = 0
  /\ idx = 0
  /\ pbch_sym = << >>
  /\ pbch_pc = "loop"

PbchIdle ==
  /\ pbch_cell = Cell
  /\ fr = 0
  /\ sym = 0
  /\ idx = 0
  /\ pbch_sym = << >>
  /\ pbch_pc = "idle"

(***************************************************************************)
(* sampling_ppm_f_search_set_by_pss and its two helpers                    *)
(*                                                                         *)
(* The capture enters through the squared normalised correlation of every  *)
(* template (PSS index times frequency offset) at every sample position.   *)
(* A template either is absent or carries a train of PSS hits, one per PSS *)
(* period; the lengths 9600, 32, 64, 137 and 8 of the code are scaled down *)
(* to NSamp, MaxOffset, HalfStore, LenPss and MaxReserve.                  *)
(***************************************************************************)
\* Templates: row pssi*num_fo+foi of pss_fo_set.
Templates == 0 .. ((NPss * NFreq) - 1)
\* hit_pss_fo_set_idx/(int)num_fo_orig and idx-pss_idx*num_fo_orig
pss_idx_of(j) == j \div NFreq
fo_idx_of(j) == j - (pss_idx_of(j) * NFreq)

\* uint32 len = length(s); a whole number of PSS periods.
len_s == NumPeriods * NSamp
\* num_sample_per_radioframe: two PSS periods.
num_sample_per_radioframe == 2 * NSamp
\* The number of window positions of a buffer of n samples, less one.
LastStart(n) == (n - (LenPss - 1)) - 1

\* int32 min_dist = (int32)floor( ((double)len/(double)pss_period) * (1.0/2.0) );
min_dist == (len_s \div NSamp) \div 2

\* Amplitudes of a hit, relative to th: the strongest, exactly half of it,
\* just below half of it, and one that does not exceed th.
AmpStrong == 4 * Th
AmpHalf == AmpStrong \div 2
AmpWeak == AmpHalf - 1
AmpSub == Th

\* A train of hits: amplitude, position of the first hit after FirstHit,
\* drift in samples per PSS period, and the number of hits before it fades;
\* one train fades one hit short of a valid sequence.
FirstHit == HalfStore + 1
NoTrain == [amp |-> 0, off |-> 0, drift |-> 0, nhits |-> 0]
Trains ==
  { [amp |-> AmpStrong, off |-> 0, drift |-> 0, nhits |-> NumPeriods],
    [amp |-> AmpStrong, off |-> 0, drift |-> 1, nhits |-> NumPeriods],
    [amp |-> AmpHalf, off |-> 1, drift |-> 0, nhits |-> NumPeriods],
    [amp |-> AmpWeak, off |-> 0, drift |-> 0, nhits |-> NumPeriods],
    [amp |-> AmpStrong, off |-> 0, drift |-> 0, nhits |-> min_dist],
    [amp |-> AmpSub, off |-> 0, drift |-> 0, nhits |-> NumPeriods],
    [amp |-> AmpStrong, off |-> 0 - FirstHit, drift |-> 0 - MaxOffset,
     nhits |-> NumPeriods + 1] }

\* Squared correlation of template j at sample position i.
Corr(tr, j, i) ==
  LET t == tr[j]
      d == i - (FirstHit + t.off)
      k == d \div (NSamp + t.drift)
  IN IF t.amp = 0 \/ d < 0 THEN 0
     ELSE IF d = k * (NSamp + t.drift) /\ k < t.nhits THEN t.amp
     ELSE 0

(***************************************************************************)
(* pss_moving_corr on s(0,2*num_sample_per_radioframe-1)                   *)
(***************************************************************************)
len_moving == 2 * num_sample_per_radioframe

\* uint16 acc = sum(to_ivec(tmp>th));
AboveTh(tr, i) == \E j \in Templates : Corr(tr, j, i) > Th

\* The sample at which the first loop breaks, or -1 (end_idx stays -1).
current_idx_of(tr) ==
  LET H == { i \in 0 .. LastStart(len_moving) : AboveTh(tr, i) }
  IN IF H = {} THEN -1 ELSE SetMin(H)

\* int32 last_idx = end_idx>tmpi?tmpi:end_idx;
last_idx_of(tr) ==
  LET end_idx == current_idx_of(tr) + HalfStore
      tmpi == LastStart(len_moving)
  IN IF end_idx > tmpi THEN tmpi ELSE end_idx

\* Row r of corr_store once the second loop has ended at sample li: the
\* correlation at sample li-r, or the zeros it was initialised with.
RingRows == 0 .. (2 * HalfStore)
corr_store_of(tr, j, r, li) == IF li - r >= 0 THEN Corr(tr, j, li - r) ELSE 0

\* max_val = max(corr_store, max_idx, 1): column maximum and its first row.
max_val_of(tr, j, li) == SetMax({ corr_store_of(tr, j, r, li) : r \in RingRows })
max_idx_of(tr, j, li) ==
  SetMin({ r \in RingRows : corr_store_of(tr, j, r, li) = max_val_of(tr, j, li) })

\* tmp_val = max_val(0)/2; the templates in front of the first k with
\* max_val(k)<tmp_val, for the column maxima mv.
HalfOfBest(mv, j) == 2 * mv[j] >= SetMax({ mv[x] : x \in DOMAIN mv })
Candidates(mv) == { j \in DOMAIN mv : HalfOfBest(mv, j) }

\* Every arrangement of the set S in a sequence.
RECURSIVE Perms(_)
Perms(S) ==
  IF S = {} THEN { << >> }
  ELSE UNION { { <<x>> \o p : p \in Perms(S \ {x}) } : x \in S }

\* reverse(sort_index(max_val)), cut to num_valid entries: the candidates in
\* an order of non-increasing max_val; the order among equals is the
\* sorting routine's.
SortedHits(mv) ==
  { p \in Perms(Candidates(mv)) :
      \A a \in 1 .. Len(p) : \A b \in a .. Len(p) : mv[p[a]] >= mv[p[b]] }

\* Both loops of pss_moving_corr and the selection after them.
PssMovingCorrHit ==
  /\ ppm_pc = "moving"
  /\ current_idx_of(pss_train) # -1
  /\ LET li == last_idx_of(pss_train)
         mv == [j \in Templates |-> max_val_of(pss_train, j, li)]
     IN \E p \in SortedHits(mv) :
          /\ hit_pss_fo_set_idx' = p
          /\ corr_val' = [a \in 1 .. Len(p) |-> mv[p[a]]]
          /\ hit_time_idx' = [a \in 1 .. Len(p) |-> li - max_idx_of(pss_train, p[a], li)]
  /\ ppm_pc' = "reserve"
  /\ UNCHANGED <<pss_train, fo_search_set, ppm, time_location, hit_corr_val,
                 time_location_invalid_record, pss_count>>
  /\ UNCHANGED outside_ppm

\* pss_moving_corr without a hit; if (length(hit_pss_fo_set_idx)==0) return;
PssMovingCorrMiss ==
  /\ ppm_pc = "moving"
  /\ current_idx_of(pss_train) = -1
  /\ ppm_pc' = "done"
  /\ UNCHANGED <<pss_train, fo_search_set, ppm, hit_pss_fo_set_idx, hit_time_idx,
                 corr_val, time_location, hit_corr_val,
                 time_location_invalid_record, pss_count>>
  /\ UNCHANGED outside_ppm

(***************************************************************************)
(* At most max_reserve_per_pss candidates per PSS index.                   *)
(***************************************************************************)
\* Positions of the hit list that hold PSS index i.
PssPositions(hits, i) == { a \in 1 .. Len(hits) : pss_idx_of(hits[a]) = i }

\* pss_reserve_idx_bin: per PSS index the positions still reserved after
\* num_discard of them are cleared from the end of the list.
RECURSIVE LargestN(_, _)
LargestN(S, n) ==
  IF n = 0 \/ S = {} THEN {} ELSE {SetMax(S)} \cup LargestN(S \ {SetMax(S)}, n - 1)
RECURSIVE SmallestN(_, _)
SmallestN(S, n) ==
  IF n = 0 \/ S = {} THEN {} ELSE {SetMin(S)} \cup SmallestN(S \ {SetMin(S)}, n - 1)

Discarded_First(hits, i) ==
  LET tmp_num == Cardinality(PssPositions(hits, i))
  IN IF tmp_num > MaxReserve
     THEN SmallestN(PssPositions(hits, i), tmp_num - MaxReserve)
     ELSE {}
Discarded(hits, i) ==
  LET tmp_num == Cardinality(PssPositions(hits, i))
  IN IF tmp_num > MaxReserve
     THEN LargestN(PssPositions(hits, i), tmp_num - MaxReserve)
     ELSE {}

\* reserve_idx: the positions with a reserved bit, in increasing order.
reserve_idx_of(hits) ==
  { a \in 1 .. Len(hits) : a \notin Discarded(hits, pss_idx_of(hits[a])) }

\* v.get(reserve_idx) for a set of positions taken in increasing order.
RECURSIVE GetSeq(_, _)
GetSeq(v, S) ==
  IF S = {} THEN << >> ELSE <<v[SetMin(S)]>> \o GetSeq(v, S \ {SetMin(S)})

\* Lines 805-856 and the initialisation of the walk.
PpmReserve ==
  /\ ppm_pc = "reserve"
  /\ LET R == reserve_idx_of(hit_pss_fo_set_idx)
     IN /\ hit_pss_fo_set_idx' = GetSeq(hit_pss_fo_set_idx, R)
        /\ hit_time_idx' = GetSeq(hit_time_idx, R)
        /\ corr_val' = GetSeq(corr_val, R)
        /\ time_location' = <<GetSeq(hit_time_idx, R)>>
        /\ hit_corr_val' = <<GetSeq(corr_val, R)>>
        /\ time_location_invalid_record' = <<[a \in 1 .. Cardinality(R) |-> 0]>>
  /\ pss_count' = 0
  /\ ppm_pc' = "walk"
  /\ UNCHANGED <<pss_train, fo_search_set, ppm>>
  /\ UNCHANGED outside_ppm

(***************************************************************************)
(* The periodicity walk: pss_fix_location_corr around each next location.  *)
(***************************************************************************)
SeqMin(v) == SetMin({ v[a] : a \in 1 .. Len(v) })
SeqMax(v) == SetMax({ v[a] : a \in 1 .. Len(v) })

\* next_location = time_location.get_row(pss_count) + pss_period;
next_location_of(tl, cnt) == [a \in 1 .. Len(tl[cnt + 1]) |-> tl[cnt + 1][a] + NSamp]

\* if( (max_next_location+max_offset) > (len-(len_pss-1)-1) ) break;
WalkEnds(tl, cnt) == SeqMax(next_location_of(tl, cnt)) + MaxOffset > LastStart(len_s)

\* pss_fix_location_corr: per template the maximum over the window and the
\* first position that reaches it.
fix_max_val(tr, j, sp, ep) == SetMax({ Corr(tr, j, i) : i \in sp .. ep })
fix_hit_time(tr, j, sp, ep) ==
  SetMin({ i \in sp .. ep : Corr(tr, j, i) = fix_max_val(tr, j, sp, ep) })

\* bvec tmp_bin_vec = ( corr_val < (th*3.0/4.0) );
IsInvalid(v) == 4 * v < 3 * Th

\* uint16 max_num_hit = ceil((double)len/(double)pss_period): the rows of
\* time_location, hit_corr_val and time_location_invalid_record.
max_num_hit == ((len_s + NSamp) - 1) \div NSamp

\* One pass of while(1) that does not break.  set_row on a row past the
\* last one either stops the program ("overrun") or writes past the
\* matrix, and the walk goes on.
PpmWalkStep ==
  /\ ppm_pc = "walk"
  /\ ~WalkEnds(time_location, pss_count)
  /\ LET nl == next_location_of(time_location, pss_count)
         sp == SeqMin(nl) - MaxOffset
         ep == SeqMax(nl) + MaxOffset
         num_fo == Len(hit_pss_fo_set_idx)
         ht == [a \in 1 .. num_fo |-> fix_hit_time(pss_train, hit_pss_fo_set_idx[a], sp, ep)]
         cv == [a \in 1 .. num_fo |-> fix_max_val(pss_train, hit_pss_fo_set_idx[a], sp, ep)]
     IN /\ hit_time_idx' = ht
        /\ corr_val' = cv
        /\ hit_corr_val' = Append(hit_corr_val, cv)
        /\ time_location' =
             Append(time_location,
                    [a \in 1 .. num_fo |-> IF IsInvalid(cv[a]) THEN nl[a] ELSE ht[a]])
        /\ time_location_invalid_record' =
             Append(time_location_invalid_record,
                    [a \in 1 .. num_fo |-> IF IsInvalid(cv[a]) THEN 1 ELSE 0])
  /\ pss_count' = pss_count + 1
  /\ \/ ppm_pc' = ppm_pc
     \/ pss_count + 1 >= max_num_hit /\ ppm_pc' = "overrun"
  /\ UNCHANGED <<pss_train, fo_search_set, ppm, hit_pss_fo_set_idx>>
  /\ UNCHANGED outside_ppm

\* The pass of while(1) that breaks.
PpmWalkBreak ==
  /\ ppm_pc = "walk"
  /\ WalkEnds(time_location, pss_count)
  /\ ppm_pc' = "estimate"
  /\ UNCHANGED <<pss_train, fo_search_set, ppm, hit_pss_fo_set_idx, hit_time_idx,
                 corr_val, time_location, hit_corr_val,
                 time_location_invalid_record, pss_count>>
  /\ UNCHANGED outside_ppm

(***************************************************************************)
(* One PPM estimate per template with a valid hit sequence.                *)
(***************************************************************************)
RECURSIVE Fact(_)
Fact(n) == IF n <= 1 THEN 1 ELSE n * Fact(n - 1)
\* PPM values are held as integers y that stand for 1e6*y/PpmDen.
PpmDen == NSamp * Fact(NumPeriods)

\* sp and ep of column a: the first and the last row with a valid hit, -1 if
\* there is none.
ValidRows(inv, a) == { r \in 0 .. (Len(inv) - 1) : inv[r + 1][a] = 0 }
sp_of(inv, a) == IF ValidRows(inv, a) = {} THEN -1 ELSE SetMin(ValidRows(inv, a))
ep_of(inv, a) == IF ValidRows(inv, a) = {} THEN -1 ELSE SetMax(ValidRows(inv, a))

\* Neither continue is taken for column a.
HasEstimate_One(inv, a) == sp_of(inv, a) # -1 /\ ~((ep_of(inv, a) - sp_of(inv, a)) < 1)
HasEstimate(inv, a) == sp_of(inv, a) # -1 /\ ~((ep_of(inv, a) - sp_of(inv, a)) < min_dist)

\* ppm_raw = 1.0e6 * ( (double)distance - (double)len_ppm )/(double)len_ppm;
ppm_raw_of(tl, inv, a) ==
  LET distance == tl[ep_of(inv, a) + 1][a] - tl[sp_of(inv, a) + 1][a]
      len_ppm == NSamp * (((ep_of(inv, a) - sp_of(inv, a)) + 1) - 1)
  IN (distance - len_ppm) * (PpmDen \div len_ppm)

\* valid_idx and ppm_store after the loop over the columns.
valid_idx_of(inv) ==
  GetSeq([a \in 1 .. Len(inv[1]) |-> a], { a \in 1 .. Len(inv[1]) : HasEstimate(inv, a) })
ppm_store_of(tl, inv) ==
  [b \in 1 .. Len(valid_idx_of(inv)) |-> ppm_raw_of(tl, inv, valid_idx_of(inv)[b])]

(***************************************************************************)
(* Aggregation of the estimates and selection of the frequencies.          *)
(***************************************************************************)
Abs(x) == IF x < 0 THEN 0 - x ELSE x

RECURSIVE SeqSum(_)
SeqSum(v) == IF v = << >> THEN 0 ELSE Head(v) + SeqSum(Tail(v))

\* max(vec, index): the first position of the maximum.
ArgMaxFirst(v) == SetMin({ a \in 1 .. Len(v) : v[a] = SeqMax(v) })

\* sum( elem_mult( 1-time_location_invalid_record.get_col(col), hit_corr_val.get_col(col) ) )
sum_corr_val_of(hcv, inv, col) ==
  SeqSum([r \in 1 .. Len(hcv) |-> IF inv[r][col] = 0 THEN hcv[r][col] ELSE 0])

\* The column among cols (a sequence) with the largest sum, first on ties.
BestCol(hcv, inv, cols) ==
  cols[ArgMaxFirst([b \in 1 .. Len(cols) |-> sum_corr_val_of(hcv, inv, cols[b])])]

\* 1e7: 0.01 ppm^2 is 1/(1e7*1e7) in the unit (1e6)^2 of the squared estimates.
TenMillion == 10000000

\* variance(ppm_store) > 0.01, variance normalised by n-1.
VarianceAbove(Y) ==
  LET n == Len(Y)
      S == SeqSum(Y)
      Q == SeqSum([b \in 1 .. n |-> Y[b] * Y[b]])
  IN ((n * Q) - (S * S)) > (((n * (n - 1) * PpmDen * PpmDen) \div TenMillion) \div TenMillion)

\* ( abs(ppm_store(1)-ppm_store(0))/abs(ppm_store(0)) ) > (1.0/20.0)
Disagree(Y) == 20 * Abs(Y[2] - Y[1]) > Abs(Y[1])

\* drop_idx_bin = (ppm_store == ppm_store(max_idx)) for the estimate
\* farthest from the mean: the positions it marks.
drop_positions(Y) ==
  LET n == Len(Y)
      S == SeqSum(Y)
      max_idx == ArgMaxFirst([b \in 1 .. n |-> Abs((n * Y[b]) - S)])
  IN { b \in 1 .. n : Y[b] = Y[max_idx] }

\* (double)num_drop_idx >= ((double)ppm_idx+1.0)*3.0/8.0
TooManyDrops_Above(Y) == 8 * Cardinality(drop_positions(Y)) > 3 * Len(Y)
TooManyDrops(Y) == 8 * Cardinality(drop_positions(Y)) >= 3 * Len(Y)

\* The frequencies of the templates in ix (a sequence of template rows),
\* sorted, with duplicates removed: the final loop over tmp_f_set.
RECURSIVE SortedSeq(_)
SortedSeq(S) == IF S = {} THEN << >> ELSE <<SetMin(S)>> \o SortedSeq(S \ {SetMin(S)})
final_fo_set_All(fo, ix) == [a \in 1 .. Len(ix) |-> fo[fo_idx_of(ix[a]) + 1]]
final_fo_set(fo, ix) == SortedSeq({ fo[fo_idx_of(ix[a]) + 1] : a \in 1 .. Len(ix) })

\* add fo from other PSSs if there are: for each PSS index absent from ix,
\* in increasing order, the best column of valid_idx_backup with that index.
RECURSIVE AddOtherPss(_, _, _, _, _, _)
AddOtherPss(ix, covered, p, hits, hcv, inv) ==
  IF p >= NPss THEN ix
  ELSE LET Vb == valid_idx_of(inv)
           cols == GetSeq(Vb, { b \in 1 .. Len(Vb) : pss_idx_of(hits[Vb[b]]) = p })
       IN IF p \in covered \/ cols = << >>
          THEN AddOtherPss(ix, covered, p + 1, hits, hcv, inv)
          ELSE AddOtherPss(Append(ix, hits[BestCol(hcv, inv, cols)]), covered,
                           p + 1, hits, hcv, inv)

\* From vec sum_corr_val(ppm_idx+1) to the end of the function, for the
\* estimates Y of the columns V that are left, with extra_frequency_flag.
SelectTail(Y, V, flag, D, hits, hcv, inv, fo) ==
  LET max_col == BestCol(hcv, inv, V)
      max_idx == ArgMaxFirst([b \in 1 .. Len(V) |-> sum_corr_val_of(hcv, inv, V[b])])
      Rv == (1 .. Len(V)) \ D
      extra_valid_idx == IF max_idx \in D THEN GetSeq(V, Rv) ELSE GetSeq(V, D)
      idx1 == IF flag
              THEN <<hits[max_col], hits[BestCol(hcv, inv, extra_valid_idx)]>>
              ELSE <<hits[max_col]>>
      covered == { pss_idx_of(idx1[a]) : a \in 1 .. Len(idx1) }
      idx2 == AddOtherPss(idx1, covered, 0, hits, hcv, inv)
  IN final_fo_set(fo, idx2)

\* ppm as the pair <<y, d>> that stands for 1e6*y/d; NAN is 0/0.
PpmNaN == <<0, 0>>
MeanOf(Y) == <<SeqSum(Y), Len(Y) * PpmDen>>

\* Everything after if (ppm_idx == -1): the results ppm and fo_search_set and
\* whether the function returns; a subtraction of vectors of unequal length
\* either stops the program or uses the length of its left operand.
Aggregate(hits, tl, hcv, inv, fo) ==
  LET V == valid_idx_of(inv)
      Y == ppm_store_of(tl, inv)
      n == Len(Y)
  IN IF n = 1
     THEN { [ppm |-> <<Y[1], PpmDen>>, fo |-> <<fo[fo_idx_of(hits[V[1]]) + 1]>>,
             pc |-> "done"] }
     ELSE IF n = 2
     THEN IF Disagree(Y)
          THEN IF fo_idx_of(hits[V[1]]) = fo_idx_of(hits[V[2]])
               THEN { [ppm |-> MeanOf(Y), fo |-> <<fo[fo_idx_of(hits[V[1]]) + 1]>>,
                       pc |-> "done"],
                      [ppm |-> MeanOf(Y), fo |-> fo, pc |-> "abort"] }
               ELSE { [ppm |-> MeanOf(Y),
                       fo |-> <<fo[fo_idx_of(hits[V[1]]) + 1], fo[fo_idx_of(hits[V[2]]) + 1]>>,
                       pc |-> "done"] }
          ELSE { [ppm |-> MeanOf(Y),
                  fo |-> SelectTail(Y, V, FALSE, {}, hits, hcv, inv, fo),
                  pc |-> "done"] }
     ELSE IF VarianceAbove(Y)
     THEN LET D == drop_positions(Y)
              K == (1 .. n) \ D
          IN IF TooManyDrops(Y)
             THEN { [ppm |-> MeanOf(Y),
                     fo |-> SelectTail(Y, V, TRUE, D, hits, hcv, inv, fo),
                     pc |-> "done"] }
             ELSE { [ppm |-> MeanOf(GetSeq(Y, K)),
                     fo |-> SelectTail(GetSeq(Y, K), GetSeq(V, K), FALSE, {}, hits, hcv, inv, fo),
                     pc |-> "done"] }
     ELSE { [ppm |-> PpmNaN,
             fo |-> SelectTail(Y, V, FALSE, {}, hits, hcv, inv, fo),
             pc |-> "done"] }

\* if (ppm_idx == -1) return;
PpmNoValid ==
  /\ ppm_pc = "estimate"
  /\ valid_idx_of(time_location_invalid_record) = << >>
  /\ ppm_pc' = "done"
  /\ UNCHANGED <<pss_train, fo_search_set, ppm, hit_pss_fo_set_idx, hit_time_idx,
                 corr_val, time_location, hit_corr_val,
                 time_location_invalid_record, pss_count>>
  /\ UNCHANGED outside_ppm

\* The estimates are aggregated and the frequency search set is rewritten.
PpmAggregate ==
  /\ ppm_pc = "estimate"
  /\ valid_idx_of(time_location_invalid_record) # << >>
  /\ \E res \in Aggregate(hit_pss_fo_set_idx, time_location, hit_corr_val,
                          time_location_invalid_record, fo_search_set) :
       /\ ppm' = res.ppm
       /\ fo_search_set' = res.fo
       /\ ppm_pc' = res.pc
  /\ UNCHANGED <<pss_train, hit_pss_fo_set_idx, hit_time_idx, corr_val,
                 time_location, hit_corr_val, time_location_invalid_record,
                 pss_count>>
  /\ UNCHANGED outside_ppm

\* The captures that are tried: at most as many templates as there are PSS
\* sequences carry a train.
PssTrains ==
  UNION { [A -> Trains] : A \in { X \in SUBSET Templates : Cardinality(X) <= NPss } }
TrainOf(f) == [j \in Templates |-> IF j \in DOMAIN f THEN f[j] ELSE NoTrain]

\* The frequency search set handed in, as a vector.
fo_search_set_in == [a \in 1 .. NFreq |-> f_search_set[a - 1]]

\* ppm = NAN; and the empty hit vectors.
PpmInit ==
  /\ \E f \in PssTrains : pss_train = TrainOf(f)
  /\ fo_search_set = fo_search_set_in
  /\ ppm = PpmNaN
  /\ hit_pss_fo_set_idx = << >>
  /\ hit_time_idx = << >>
  /\ corr_val = << >>
  /\ time_location = << >>
  /\ hit_corr_val = << >>
  /\ time_location_invalid_record = << >>
  /\ pss_count = 0
  /\ ppm_pc = "moving"

PpmIdle ==
  /\ pss_train = [j \in Templates |-> NoTrain]
  /\ fo_search_set = fo_search_set_in
  /\ ppm = PpmNaN
  /\ hit_pss_fo_set_idx = << >>
  /\ hit_time_idx = << >>
  /\ corr_val = << >>
  /\ time_location = << >>
  /\ hit_corr_val = << >>
  /\ time_location_invalid_record = << >>
  /\ pss_count = 0
  /\ ppm_pc = "idle"

(***************************************************************************)
(* The branch for three or more estimates, on its own: ppm_store is drawn  *)
(* from all vectors of up to MaxEst estimates over EstValues.              *)
(***************************************************************************)
EstValues == {-2, 0, 1}

PpmStores == UNION { [1 .. n -> EstValues] : n \in 3 .. MaxEst }

\* else if ( variance(ppm_store) > 0.01 ) is not taken: no branch assigns ppm.
PpmOutlierSkip ==
  /\ agg_pc = "branch"
  /\ ~VarianceAbove(ppm_store)
  /\ agg_pc' = "tail"
  /\ UNCHANGED <<ppm_store, ppm_store_in, extra_frequency_flag, ppm_vars>>
  /\ UNCHANGED <<peak_vars, sss_vars, mib_vars, pbch_vars, acq_vars, hex_vars, getce_vars, disp_vars>>

\* Too many PPM drops. Will not do it.
PpmOutlierKeep ==
  /\ agg_pc = "branch"
  /\ VarianceAbove(ppm_store)
  /\ TooManyDrops(ppm_store)
  /\ extra_frequency_flag' = TRUE
  /\ ppm' = MeanOf(ppm_store)
  /\ agg_pc' = "tail"
  /\ UNCHANGED <<ppm_store, ppm_store_in>>
  /\ UNCHANGED <<pss_train, fo_search_set, hit_pss_fo_set_idx, hit_time_idx,
                 corr_val, time_location, hit_corr_val,
                 time_location_invalid_record, pss_count, ppm_pc>>
  /\ UNCHANGED <<peak_vars, sss_vars, mib_vars, pbch_vars, acq_vars, hex_vars, getce_vars, disp_vars>>

\* The dropped elements are deleted and the rest is averaged.
PpmOutlierDrop ==
  /\ agg_pc = "branch"
  /\ VarianceAbove(ppm_store)
  /\ ~TooManyDrops(ppm_store)
  /\ LET reserve_idx == (1 .. Len(ppm_store)) \ drop_positions(ppm_store)
     IN /\ ppm_store' = GetSeq(ppm_store, reserve_idx)
        /\ ppm' = MeanOf(GetSeq(ppm_store, reserve_idx))
  /\ agg_pc' = "tail"
  /\ UNCHANGED <<ppm_store_in, extra_frequency_flag>>
  /\ UNCHANGED <<pss_train, fo_search_set, hit_pss_fo_set_idx, hit_time_idx,
                 corr_val, time_location, hit_corr_val,
                 time_location_invalid_record, pss_count, ppm_pc>>
  /\ UNCHANGED <<peak_vars, sss_vars, mib_vars, pbch_vars, acq_vars, hex_vars, getce_vars, disp_vars>>

AggInit ==
  /\ ppm_store \in PpmStores
  /\ ppm_store_in = ppm_store
  /\ extra_frequency_flag = FALSE
  /\ agg_pc = "branch"

AggIdle ==
  /\ ppm_store = << >>
  /\ ppm_store_in = << >>
  /\ extra_frequency_flag = FALSE
  /\ agg_pc = "idle"

(***************************************************************************)
(* xc_correlate: the loops over the frequency offsets and the PSS          *)
(* sequences run on one thread; the loop over the sample positions k is    *)
(* shared out among the workers of a parallel region.                      *)
(***************************************************************************)
Workers == 1 .. NWorkers

\* for (k=0;k<n_cap-136;k++): the positions of one parallel loop.
XcPositions == 0 .. ((NCap - (LenPss - 1)) - 1)
XcSlots == Rows \X XcPositions \X (0 .. (NFreq - 1))

\* if (sampling_carrier_twist) k_factor=(fc_requested-f_off)/fc_programmed;
\* as a numerator over KDen.
k_factor_Kept(twist, f_off, k) == k
k_factor_new(twist, f_off, k) == IF twist THEN fc_requested_val - f_off ELSE k

\* temp=fshift(ROM_TABLES.pss_td[t],f_off,fs_programmed*k_factor): the
\* template is identified by what it was made from.
NoTemp == <<-1, -1, -1>>
temp_of(tt, f_off, k) == <<tt, f_off, k>>

\* acc after the loop over m: the sum of temp(m)*capbuf(k+m), identified by
\* the template and the samples under it.
acc_of(tmpl, buf, kk) == [temp |-> tmpl, win |-> [mm \in 0 .. (LenPss - 1) |-> buf[kk + mm]]]
XcNaN == [temp |-> NoTemp, win |-> [mm \in 0 .. (LenPss - 1) |-> 0]]

\* The element xc[t][k][foi] that a worker at position k writes.
xc_slot_NoK(tt, kk, ff) == <<tt, 0, ff>>
xc_slot(tt, kk, ff) == <<tt, kk, ff>>

\* Memory locations that are visible to several workers.
LocXc(s) == <<"xc", s[1], s[2], s[3]>>
LocTemp(mm) == <<"temp", mm, 0, 0>>
LocCapbuf(i) == <<"capbuf", i, 0, 0>>
LocT == <<"t", 0, 0, 0>>
LocFoi == <<"foi", 0, 0, 0>>

NoAccess == [w \in Workers |-> {}]

\* The sequential part of one pass of the loop over t: k_factor is
\* recomputed when a new frequency offset starts, temp is rewritten, and
\* the parallel region is entered with the positions shared out in one of
\* the ways the schedule allows.
XcFork ==
  /\ xc_pc = "seq"
  /\ xc_foi < NFreq
  /\ LET f_off == f_search_set[xc_foi]
         kf == IF xc_t = 0 THEN k_factor_new(sampling_twist, f_off, k_factor_io)
               ELSE k_factor_io
     IN /\ k_factor_io' = kf
        /\ temp' = temp_of(xc_t, f_off, kf)
  /\ \E sh \in [XcPositions -> Workers] : share' = sh
  /\ xc_pc' = "par"
  /\ UNCHANGED <<capbuf, capbuf_filled, sampling_twist, k_factor_in, xc, xc_foi,
                 xc_t, priv_k, priv_acc, rd, wr, stage_vars>>
  /\ UNCHANGED outside_acq

\* A worker takes one of its positions (share[k] = w; -w once it is done)
\* and runs the loop over m.
XcWorkerAcc(w) ==
  /\ xc_pc = "par"
  /\ priv_k[w] = -1
  /\ \E kk \in XcPositions :
       /\ share[kk] = w
       /\ priv_k' = [priv_k EXCEPT ![w] = kk]
       /\ priv_acc' = [priv_acc EXCEPT ![w] = acc_of(temp, capbuf, kk)]
       /\ rd' = [rd EXCEPT ![w] = @ \cup { LocTemp(mm) : mm \in 0 .. (LenPss - 1) }
                                   \cup { LocCapbuf(kk + mm) : mm \in 0 .. (LenPss - 1) }]
  /\ UNCHANGED <<capbuf, capbuf_filled, sampling_twist, k_factor_in, k_factor_io,
                 xc, temp, xc_foi, xc_t, share, wr, xc_pc, stage_vars>>
  /\ UNCHANGED outside_acq

\* xc[t][k][foi]=acc;
XcWorkerStore(w) ==
  /\ xc_pc = "par"
  /\ priv_k[w] # -1
  /\ xc' = [xc EXCEPT ![xc_slot(xc_t, priv_k[w], xc_foi)] = priv_acc[w]]
  /\ wr' = [wr EXCEPT ![w] = @ \cup {LocXc(xc_slot(xc_t, priv_k[w], xc_foi))}]
  /\ rd' = [rd EXCEPT ![w] = @ \cup {LocT, LocFoi}]
  /\ share' = [share EXCEPT ![priv_k[w]] = 0 - w]
  /\ priv_k' = [priv_k EXCEPT ![w] = -1]
  /\ UNCHANGED <<capbuf, capbuf_filled, sampling_twist, k_factor_in, k_factor_io,
                 temp, xc_foi, xc_t, priv_acc, xc_pc, stage_vars>>
  /\ UNCHANGED outside_acq

\* The end of the parallel region: every position is done, the private
\* copies and the record of the accesses of the region go; t and foi advance.
XcJoin ==
  /\ xc_pc = "par"
  /\ \A kk \in XcPositions : share[kk] < 0
  /\ \A w \in Workers : priv_k[w] = -1
  /\ IF xc_t + 1 < NPss
     THEN xc_t' = xc_t + 1 /\ xc_foi' = xc_foi
     ELSE xc_t' = 0 /\ xc_foi' = xc_foi + 1
  /\ share' = [kk \in XcPositions |-> 0]
  /\ priv_acc' = [w \in Workers |-> XcNaN]
  /\ rd' = NoAccess
  /\ wr' = NoAccess
  /\ xc_pc' = "seq"
  /\ UNCHANGED <<capbuf, capbuf_filled, sampling_twist, k_factor_in, k_factor_io,
                 xc, temp, priv_k, stage_vars>>
  /\ UNCHANGED outside_acq

\* for (foi=0;foi<n_f;foi++) ends.
XcReturn ==
  /\ xc_pc = "seq"
  /\ xc_foi = NFreq
  /\ xc_pc' = "done"
  /\ UNCHANGED <<capbuf, capbuf_filled, sampling_twist, k_factor_in, k_factor_io,
                 xc, temp, xc_foi, xc_t, share, priv_k, priv_acc, rd, wr, stage_vars>>
  /\ UNCHANGED outside_acq

\* The capture buffers and the values of k_factor that are handed in.
Capbufs == { [i \in 0 .. (NCap - 1) |-> IF i \in S THEN 1 ELSE 0] : S \in {{}, {0}, {1, NCap - 1}} }
KFactorsIn == {KDen - 1, KDen + 1}

AcqParams ==
  /\ capbuf \in Capbufs
  /\ capbuf_filled = capbuf
  /\ sampling_twist \in BOOLEAN
  /\ k_factor_in \in KFactorsIn
  /\ k_factor_io = k_factor_in

XcStart ==
  /\ xc = [s \in XcSlots |-> XcNaN]
  /\ temp = NoTemp
  /\ xc_foi = 0
  /\ xc_t = 0
  /\ share = [kk \in XcPositions |-> 0]
  /\ priv_k = [w \in Workers |-> -1]
  /\ priv_acc = [w \in Workers |-> XcNaN]
  /\ rd = NoAccess
  /\ wr = NoAccess

XcInit == AcqParams /\ XcStart /\ xc_pc = "seq"

(***************************************************************************)
(* The other routines that are handed the capture buffer, one call each.   *)
(* What a call computes is identified by the samples it reads, the        *)
(* frequency of its cell and the values of k_factor it uses.               *)
(***************************************************************************)
NoOut == [name |-> "none", k |-> << >>, buf |-> capbuf_filled, freq |-> 0, coef |-> << >>]

StageReady == xc_pc = "done" /\ n_calls < MaxCalls

\* sp_est reads capbuf and has no k_factor.
SpEst ==
  /\ StageReady
  /\ stage_out' = [NoOut EXCEPT !.name = "sp_est", !.buf = capbuf]
  /\ n_calls' = n_calls + 1
  /\ UNCHANGED <<capbuf, capbuf_filled, sampling_twist, k_factor_in, k_factor_io,
                 xc, temp, xc_foi, xc_t, share, priv_k, priv_acc, rd, wr, xc_pc>>
  /\ UNCHANGED outside_acq

\* k_factor in the loop over foi of xc_combine, at each use.
RECURSIVE k_combine(_, _, _)
k_combine(twist, foi, k) ==
  IF foi = NFreq THEN << >>
  ELSE LET kf == k_factor_new(twist, f_search_set[foi], k)
       IN <<kf>> \o k_combine(twist, foi + 1, kf)

\* xc_combine: actual_start_index=round_i(m*.005*k_factor*fs_programmed).
XcCombine ==
  /\ StageReady
  /\ LET ks == k_combine(sampling_twist, 0, k_factor_io)
     IN /\ stage_out' = [NoOut EXCEPT !.name = "xc_combine", !.k = ks, !.buf = capbuf]
        /\ k_factor_io' = ks[Len(ks)]
  /\ n_calls' = n_calls + 1
  /\ UNCHANGED <<capbuf, capbuf_filled, sampling_twist, k_factor_in,
                 xc, temp, xc_foi, xc_t, share, priv_k, priv_acc, rd, wr, xc_pc>>
  /\ UNCHANGED outside_acq

\* sampling_ppm_f_search_set_by_pss reads s and has no k_factor.
PpmPreSearch ==
  /\ StageReady
  /\ stage_out' = [NoOut EXCEPT !.name = "ppm", !.buf = capbuf]
  /\ n_calls' = n_calls + 1
  /\ UNCHANGED <<capbuf, capbuf_filled, sampling_twist, k_factor_in, k_factor_io,
                 xc, temp, xc_foi, xc_t, share, priv_k, priv_acc, rd, wr, xc_pc>>
  /\ UNCHANGED outside_acq

\* sss_detect: k_factor is recomputed from cell.freq in sss_detect_getce_sss
\* before the PSS positions are laid out, and again before frame_start.
SssDetectStage ==
  /\ StageReady
  /\ \E fi \in 0 .. (NFreq - 1) :
       LET kf == k_factor_new(sampling_twist, f_search_set[fi], k_factor_io)
       IN /\ stage_out' = [NoOut EXCEPT !.name = "sss_detect", !.k = <<kf, kf>>,
                                         !.buf = capbuf, !.freq = f_search_set[fi]]
          /\ k_factor_io' = kf
  /\ n_calls' = n_calls + 1
  /\ UNCHANGED <<capbuf, capbuf_filled, sampling_twist, k_factor_in,
                 xc, temp, xc_foi, xc_t, share, priv_k, priv_acc, rd, wr, xc_pc>>
  /\ UNCHANGED outside_acq

\* pss_sss_foe: k_factor is recomputed from cell_in.freq on entry.
PssSssFoe ==
  /\ StageReady
  /\ \E fi \in 0 .. (NFreq - 1) :
       LET kf == k_factor_new(sampling_twist, f_search_set[fi], k_factor_io)
       IN /\ stage_out' = [NoOut EXCEPT !.name = "pss_sss_foe", !.k = <<kf>>,
                                         !.buf = capbuf, !.freq = f_search_set[fi]]
          /\ k_factor_io' = kf
  /\ n_calls' = n_calls + 1
  /\ UNCHANGED <<capbuf, capbuf_filled, sampling_twist, k_factor_in,
                 xc, temp, xc_foi, xc_t, share, priv_k, priv_acc, rd, wr, xc_pc>>
  /\ UNCHANGED outside_acq

\* extract_tfg: k_factor is recomputed from cell.freq_fine on entry; the
\* shifted cvec capbuf=fshift(capbuf_raw,...) is a local.
ExtractTfg ==
  /\ StageReady
  /\ \E fi \in 0 .. (NFreq - 1) :
       LET kf == k_factor_new(sampling_twist, f_search_set[fi], k_factor_io)
       IN /\ stage_out' = [NoOut EXCEPT !.name = "extract_tfg", !.k = <<kf>>,
                                         !.buf = capbuf, !.freq = f_search_set[fi]]
          /\ k_factor_io' = kf
  /\ n_calls' = n_calls + 1
  /\ UNCHANGED <<capbuf, capbuf_filled, sampling_twist, k_factor_in,
                 xc, temp, xc_foi, xc_t, share, priv_k, priv_acc, rd, wr, xc_pc>>
  /\ UNCHANGED outside_acq

\* The FIR coefficients that are tried: the identity and a smoothing filter.
FirCoefs == { <<0, 1, 0>>, <<1, 1, 1>> }

\* tmpbuf of filter_my: the three loops over i write tmpbuf[i-len_half].
filter_Copy(coef, buf) == buf
filter_of(coef, buf) ==
  LET len == NCap
      len_fir == Len(coef)
      len_half == (len_fir - 1) \div 2
      term(i, j) == coef[j + 1] * buf[i - j]
      RECURSIVE sum(_, _, _)
      sum(i, j, last) == IF j > last THEN 0 ELSE term(i, j) + sum(i, j + 1, last)
  IN [x \in 0 .. (len - 1) |->
        LET i == x + len_half
        IN IF i < len_fir THEN sum(i, 0, i)
           ELSE IF i < len THEN sum(i, 0, len_fir - 1)
           ELSE sum(i, (i - len) + 1, len_fir - 1)]

\* filter_my: capbuf = tmpbuf;
FilterMy ==
  /\ StageReady
  /\ \E coef \in FirCoefs :
       /\ capbuf' = filter_of(coef, capbuf)
       /\ stage_out' = [NoOut EXCEPT !.name = "filter_my", !.buf = capbuf, !.coef = coef]
  /\ n_calls' = n_calls + 1
  /\ UNCHANGED <<capbuf_filled, sampling_twist, k_factor_in, k_factor_io,
                 xc, temp, xc_foi, xc_t, share, priv_k, priv_acc, rd, wr, xc_pc>>
  /\ UNCHANGED outside_acq

AcqInit == XcInit /\ stage_out = NoOut /\ n_calls = 0

AcqIdle ==
  /\ capbuf = [i \in 0 .. (NCap - 1) |-> 0]
  /\ capbuf_filled = capbuf
  /\ sampling_twist = FALSE
  /\ k_factor_in = KDen
  /\ k_factor_io = KDen
  /\ XcStart
  /\ xc_pc = "idle"
  /\ stage_out = NoOut
  /\ n_calls = 0

(***************************************************************************)
(* ce_interp_hex: the triangle walk between two adjacent OFDM symbols with *)
(* reference symbols.  Rows are counted from the upper symbol rs_set(t),   *)
(* so the lower symbol rs_set(t+1) is row spacing; the edge of a triangle  *)
(* is evaluated exactly.                                                   *)
(***************************************************************************)
\* Distance in subcarriers between two reference symbols of one OFDM symbol.
RsStep == 6
\* Number of subcarriers of a row of ce_tfg.
NSc == LastSc + 1

\* itpp_ext::matlab_range(shift,6,71)
RECURSIVE rs_range(_)
rs_range(x) == IF x > LastSc THEN << >> ELSE <<x>> \o rs_range(x + RsStep)

\* ce_interp_hex_extend: a vertex is added at subcarrier 0 and at
\* subcarrier 71 where there is none.
extend_None(row_x) == row_x
extend_of(row_x) ==
  LET lo == IF row_x[1] # 0 THEN <<0>> \o row_x ELSE row_x
  IN IF lo[Len(lo)] # LastSc THEN Append(lo, LastSc) ELSE lo

row_x_of(s) == extend_of(rs_range(s))

\* The shifts of the upper and of the lower row.
top_row_x == row_x_of(hex_shift)
bot_row_x == row_x_of((hex_shift + 3) % RsStep)

Vertex(x, y) == [x_sc |-> x, y_symnum |-> y]

\* x <= a_l*r+b_l for the line through triangle[1] and triangle[2], with
\* a_l=(x1-x2)/(y1-y2) and b_l=(y1*x2-y2*x1)/(y1-y2).
LeftOfEdge(tri, x, r) ==
  LET x1 == tri[2].x_sc
      x2 == tri[3].x_sc
      y1 == tri[2].y_symnum
      y2 == tri[3].y_symnum
      num == ((x1 - x2) * r) + ((y1 * x2) - (y2 * x1))
  IN IF y1 - y2 > 0 THEN x * (y1 - y2) <= num ELSE x * (y1 - y2) >= num

\* x_offset(r) after while (x_offset(r)<=a_l*(rs_set(t)+r)+b_l): the first
\* column from x_offset(r) on that is right of the edge; NSc + 1 if the
\* loop runs past the last column.
x_offset_after(tri, xo, r) ==
  CHOOSE x \in xo[r] .. (NSc + 1) :
    /\ x = NSc + 1 \/ ~LeftOfEdge(tri, x, r)
    /\ \A z \in xo[r] .. (x - 1) : LeftOfEdge(tri, z, r)

\* The loop over r of one triangle: the cursors and the paint counts.
HexPaint(tri) ==
  LET xo == [r \in 1 .. spacing |-> x_offset_after(tri, x_offset, r)]
  IN /\ x_offset' = xo
     /\ painted' = [r \in 1 .. spacing |-> [x \in 0 .. LastSc |->
                      IF x >= x_offset[r] /\ x < xo[r] THEN painted[r][x] + 1
                      ELSE painted[r][x]]]

HexFaultless(tri) ==
  /\ tri[2].y_symnum # tri[3].y_symnum
  /\ \A r \in 1 .. spacing : x_offset_after(tri, x_offset, r) <= NSc

HexBreaks(tri) ==
  /\ x_offset_after(tri, x_offset, 1) = NSc
  /\ x_offset_after(tri, x_offset, spacing) = NSc

\* A pass of while (true) that ends in break.
HexStepBreak ==
  /\ hex_pc = "walk"
  /\ HexFaultless(triangle)
  /\ HexBreaks(triangle)
  /\ HexPaint(triangle)
  /\ hex_pc' = "done"
  /\ UNCHANGED <<hex_shift, spacing, triangle, top_row_last_used, bot_row_last_used>>
  /\ UNCHANGED outside_hex

\* A pass of while (true) that chooses the points of the next triangle; a
\* division by zero, a write past column 71 or a read past the last vertex
\* of a row ends the walk in "fault".
HexStepNext ==
  /\ hex_pc = "walk"
  /\ ~(HexFaultless(triangle) /\ HexBreaks(triangle))
  /\ IF ~HexFaultless(triangle)
     THEN /\ hex_pc' = "fault"
          /\ UNCHANGED <<triangle, top_row_last_used, bot_row_last_used, x_offset, painted>>
     ELSE /\ HexPaint(triangle)
          /\ IF triangle[3].y_symnum = 0
             THEN /\ bot_row_last_used' = bot_row_last_used + 1
                  /\ top_row_last_used' = top_row_last_used
                  /\ IF bot_row_last_used + 1 >= Len(bot_row_x)
                     THEN hex_pc' = "fault" /\ triangle' = triangle
                     ELSE /\ hex_pc' = "walk"
                          /\ triangle' = <<triangle[2], triangle[3],
                                           Vertex(bot_row_x[bot_row_last_used + 2], spacing)>>
             ELSE /\ top_row_last_used' = top_row_last_used + 1
                  /\ bot_row_last_used' = bot_row_last_used
                  /\ IF top_row_last_used + 1 >= Len(top_row_x)
                     THEN hex_pc' = "fault" /\ triangle' = triangle
                     ELSE /\ hex_pc' = "walk"
                          /\ triangle' = <<triangle[2], triangle[3],
                                           Vertex(top_row_x[top_row_last_used + 2], 0)>>
  /\ UNCHANGED <<hex_shift, spacing>>
  /\ UNCHANGED outside_hex

\* The distances between adjacent OFDM symbols with reference symbols:
\* 4 and 3 (ports 0 and 1, normal CP), 3 (extended CP), 7 and 6 (ports 2, 3).
HexSpacings == {3, 4, 6, 7}

\* Create initial triangle
HexInit ==
  /\ hex_shift \in 0 .. (RsStep - 1)
  /\ spacing \in HexSpacings
  /\ IF top_row_x[2] < bot_row_x[2]
     THEN /\ triangle = <<Vertex(top_row_x[1], 0), Vertex(bot_row_x[1], spacing),
                          Vertex(top_row_x[2], 0)>>
          /\ top_row_last_used = 1
          /\ bot_row_last_used = 0
     ELSE /\ triangle = <<Vertex(bot_row_x[1], spacing), Vertex(top_row_x[1], 0),
                          Vertex(bot_row_x[2], spacing)>>
          /\ top_row_last_used = 0
          /\ bot_row_last_used = 1
  /\ x_offset = [r \in 1 .. spacing |-> 0]
  /\ painted = [r \in 1 .. spacing |-> [x \in 0 .. LastSc |-> 0]]
  /\ hex_pc = "walk"

HexIdle ==
  /\ hex_shift = 0
  /\ spacing = 1
  /\ triangle = <<Vertex(0, 0), Vertex(0, 1), Vertex(0, 0)>>
  /\ top_row_last_used = 0
  /\ bot_row_last_used = 0
  /\ x_offset = [r \in 1 .. spacing |-> 0]
  /\ painted = [r \in 1 .. spacing |-> [x \in 0 .. LastSc |-> 0]]
  /\ hex_pc = "idle"

(***************************************************************************)
(* sss_detect_getce_sss: the 128-sample windows read around every PSS of   *)
(* the capture buffer, with k_factor = 1.                                  *)
(***************************************************************************)
\* CAPLENGTH, the number of samples of a capture buffer.
CapLength == 153600

min_idx_of(tdd) == IF tdd = 1 THEN (3 * (128 + 32)) + 32 ELSE 163 - 9
sss_ext_offset_of(tdd) == IF tdd = 1 THEN 3 * (128 + 32) ELSE 128 + 32
sss_nrm_offset_of(tdd) == IF tdd = 1 THEN 412 ELSE 128 + 9

\* itpp_ext::matlab_range(first,incr,last): first, first+incr, ... up to
\* and including last.
RECURSIVE matlab_range(_, _, _)
matlab_range(first, incr, last) ==
  IF first > last THEN << >> ELSE <<first>> \o matlab_range(first + incr, incr, last)

\* The location of all PSS's in the capture buffer where we also have
\* access to an SSS.
pss_loc_set_of(loc) == matlab_range(loc, HalfFrame, CapLength - 125 - 9)

\* Skip to the right by 5 subframes if there is no room here to detect
\* the SSS.
GetceSkip ==
  /\ getce_pc = "start"
  /\ peak_loc < min_idx_of(getce_tdd_flag)
  /\ peak_loc' = peak_loc + HalfFrame
  /\ pss_loc_set' = pss_loc_set_of(peak_loc + HalfFrame)
  /\ getce_pc' = "loop"
  /\ UNCHANGED <<getce_ind, getce_tdd_flag, getce_k, pss_dft_location,
                 sss_ext_location, sss_nrm_location>>
  /\ UNCHANGED outside_getce

GetceNoSkip ==
  /\ getce_pc = "start"
  /\ ~(peak_loc < min_idx_of(getce_tdd_flag))
  /\ pss_loc_set' = pss_loc_set_of(peak_loc)
  /\ getce_pc' = "loop"
  /\ UNCHANGED <<getce_ind, getce_tdd_flag, peak_loc, getce_k, pss_dft_location,
                 sss_ext_location, sss_nrm_location>>
  /\ UNCHANGED outside_getce

\* One pass of for (uint16 k=0;k<n_pss;k++): capbuf.mid(.,128) at the PSS
\* and at the two SSS locations.  A location below 0 stands for the wrapped
\* uint32.
GetceWindows ==
  /\ getce_pc = "loop"
  /\ getce_k < Len(pss_loc_set)
  /\ pss_dft_location' = pss_loc_set[getce_k + 1] + 9 - 2
  /\ sss_ext_location' = pss_dft_location' - sss_ext_offset_of(getce_tdd_flag)
  /\ sss_nrm_location' = pss_dft_location' - sss_nrm_offset_of(getce_tdd_flag)
  /\ getce_k' = getce_k + 1
  /\ UNCHANGED <<getce_ind, getce_tdd_flag, peak_loc, pss_loc_set, getce_pc>>
  /\ UNCHANGED outside_getce

\* Combine results from different slots
GetceCombine ==
  /\ getce_pc = "loop"
  /\ getce_k = Len(pss_loc_set)
  /\ getce_pc' = "done"
  /\ UNCHANGED <<getce_ind, getce_tdd_flag, peak_loc, pss_loc_set, getce_k,
                 pss_dft_location, sss_ext_location, sss_nrm_location>>
  /\ UNCHANGED outside_getce

GetceInit ==
  /\ getce_ind \in 0 .. (HalfFrame - 1)
  /\ getce_tdd_flag \in {0, 1}
  /\ peak_loc = getce_ind
  /\ pss_loc_set = << >>
  /\ getce_k = 0
  /\ pss_dft_location = 0
  /\ sss_ext_location = 0
  /\ sss_nrm_location = 0
  /\ getce_pc = "start"

GetceIdle ==
  /\ getce_ind = 0
  /\ getce_tdd_flag = 0
  /\ peak_loc = 0
  /\ pss_loc_set = << >>
  /\ getce_k = 0
  /\ pss_dft_location = 0
  /\ sss_ext_location = 0
  /\ sss_nrm_location = 0
  /\ getce_pc = "idle"

(***************************************************************************)
(* display_thread: the mutexes held along one pass of the refresh loop.    *)
(* A mutex is <<name, i>>, i being the position of the tracked cell that   *)
(* owns it (0 for the two global mutexes); disp_held lists the mutexes     *)
(* held by the thread, oldest first.                                       *)
(***************************************************************************)
SampbufMutex == <<"sampbuf_sync.mutex", 0>>
ListMutex == <<"tracked_cell_list.mutex", 0>>
FifoMutex(i) == <<"fifo_mutex", i>>
MeasMutex(i) == <<"meas_mutex", i>>

\* The end of a block: the n youngest scoped_lock objects are destroyed.
scope_end_Leak(held, n) == held
scope_end(held, n) == SubSeq(held, 1, Len(held) - n)

\* boost::mutex::scoped_lock lock(sampbuf_sync.mutex);
DispLockSampbuf ==
  /\ disp_pc = "top"
  /\ disp_held' = Append(disp_held, SampbufMutex)
  /\ disp_pc' = "sampbuf"
  /\ UNCHANGED <<disp_it, n_tracked, pause>>
  /\ UNCHANGED outside_disp

\* The buffer sizes are printed and the block ends.
DispUnlockSampbuf ==
  /\ disp_pc = "sampbuf"
  /\ disp_held' = scope_end(disp_held, 1)
  /\ disp_pc' = "dropped"
  /\ UNCHANGED <<disp_it, n_tracked, pause>>
  /\ UNCHANGED outside_disp

\* boost::mutex::scoped_lock lock(tracked_cell_list.mutex); and
\* it=tracked_cells.begin(), for the list as the other threads left it.
DispLockList ==
  /\ disp_pc = "dropped"
  /\ disp_held' = Append(disp_held, ListMutex)
  /\ \E n \in 0 .. MaxTracked : n_tracked' = n
  /\ disp_it' = 1
  /\ disp_pc' = "cells"
  /\ UNCHANGED pause
  /\ UNCHANGED outside_disp

\* boost::mutex::scoped_lock lock1(tracked_cell.fifo_mutex);
DispLockFifo ==
  /\ disp_pc = "cells"
  /\ disp_it <= n_tracked
  /\ disp_held' = Append(disp_held, FifoMutex(disp_it))
  /\ disp_pc' = "lock1"
  /\ UNCHANGED <<disp_it, n_tracked, pause>>
  /\ UNCHANGED outside_disp

\* boost::mutex::scoped_lock lock2(tracked_cell.meas_mutex);
DispLockMeas ==
  /\ disp_pc = "lock1"
  /\ disp_held' = Append(disp_held, MeasMutex(disp_it))
  /\ disp_pc' = "lock2"
  /\ UNCHANGED <<disp_it, n_tracked, pause>>
  /\ UNCHANGED outside_disp

\* The cell is printed, ++it, and the body of the while ends.
DispPrintCell ==
  /\ disp_pc = "lock2"
  /\ disp_it' = disp_it + 1
  /\ disp_held' = scope_end(disp_held, 2)
  /\ disp_pc' = "cells"
  /\ UNCHANGED <<n_tracked, pause>>
  /\ UNCHANGED outside_disp

\* it==tracked_cells.end(): the block ends, refresh(), and getch() is
\* entered.
DispUnlockList ==
  /\ disp_pc = "cells"
  /\ disp_it > n_tracked
  /\ disp_held' = scope_end(disp_held, 1)
  /\ disp_pc' = "getch"
  /\ UNCHANGED <<disp_it, n_tracked, pause>>
  /\ UNCHANGED outside_disp

\* case 'q': endwin(); exit(-1);
DispKeyQuit ==
  /\ disp_pc = "getch"
  /\ disp_pc' = "exit"
  /\ UNCHANGED <<disp_held, disp_it, n_tracked, pause>>
  /\ UNCHANGED outside_disp

\* case 'p': pause=!pause;
DispKeyPause ==
  /\ disp_pc = "getch"
  /\ pause' = ~pause
  /\ disp_pc' = "top"
  /\ UNCHANGED <<disp_held, disp_it, n_tracked>>
  /\ UNCHANGED outside_disp

\* Any other key, or no key within the delay.
DispKeyOther ==
  /\ disp_pc = "getch"
  /\ disp_pc' = "top"
  /\ UNCHANGED <<disp_held, disp_it, n_tracked, pause>>
  /\ UNCHANGED outside_disp

\* bool pause=false; in front of while (true)
DispInit ==
  /\ disp_pc = "top"
  /\ disp_held = << >>
  /\ disp_it = 1
  /\ n_tracked = 0
  /\ pause = FALSE

DispIdle ==
  /\ disp_pc = "idle"
  /\ disp_held = << >>
  /\ disp_it = 1
  /\ n_tracked = 0
  /\ pause = FALSE

(***************************************************************************)
(* Properties of peak_search.                                              *)
(***************************************************************************)
CellIdx == 1 .. Len(cells)
PeakRow(k) == peak_hist[k][1]
PeakCol(k) == peak_hist[k][2]
ZPositive == \A i \in Cols : Z_th1[i] > 0

\* C1: within one call of peak_search the cells are appended in
\* non-increasing order of pss_pow.
C1_NonIncreasing ==
  \A i \in CellIdx : \A j \in CellIdx :
    i < j => cells[i].pss_pow >= cells[j].pss_pow

C1_Witness ==
  /\ pc = "done"
  /\ Len(cells) >= 3
  /\ cells[1].pss_pow > cells[2].pss_pow
  /\ cells[2].pss_pow >= cells[3].pss_pow
  /\ cells[3].pss_pow > 0

\* C2 (as claimed): within one call the cells are emitted in strictly
\* decreasing order of pss_pow, no two cells having equal pss_pow.
C2_StrictlyDecreasing ==
  \A i \in CellIdx : \A j \in CellIdx :
    i < j => cells[i].pss_pow > cells[j].pss_pow

\* C2 (amended): the order is non-increasing, and two cells of one call that
\* have the same positive pss_pow come from peaks on different n_id_2 or from
\* peak positions more than SuppArm (274) samples apart.
C2_EqualOnlyApart ==
  \A i \in CellIdx : \A j \in CellIdx :
    i < j =>
      /\ cells[i].pss_pow >= cells[j].pss_pow
      /\ (cells[i].pss_pow = cells[j].pss_pow /\ cells[j].pss_pow > 0)
           => (PeakRow(i) # PeakRow(j) \/ CircDist(PeakCol(i), PeakCol(j)) > SuppArm)

C2_Witness ==
  /\ pc = "done"
  /\ ZPositive
  /\ \E i \in CellIdx : \E j \in CellIdx :
       /\ i < j
       /\ cells[i].pss_pow = cells[j].pss_pow
       /\ cells[j].pss_pow > 0
       /\ PeakRow(i) # PeakRow(j)

\* C3 (as claimed): every emitted cell has 0 <= ind < NSamp (9600) and ind is
\* the index of the xc_incoherent_single maximum inside peak_ind +/-
\* ds_comb_arm, wrap-around of the window included.
C3_IndRefined ==
  \A k \in CellIdx :
    LET n == PeakRow(k)
        f == xc_incoherent_collapsed_frq[n][PeakCol(k)]
        win == { matlab_mod(PeakCol(k) + t, NSamp) : t \in (0 - ds_comb_arm) .. ds_comb_arm }
    IN /\ cells[k].ind \in Cols
       /\ cells[k].ind \in win
       /\ \A i \in win : xc_incoherent_single[n][i][f] <= xc_incoherent_single[n][cells[k].ind][f]

\* C4 (as claimed): when peak_search stops, no surviving (not zeroed) bin is
\* at or above its own threshold Z_th1[idx].
C4_NoBinPasses ==
  pc = "done" =>
    \A n \in Rows : \A i \in Cols :
      xc_incoherent_working[n][i] > 0 => xc_incoherent_working[n][i] < Z_th1[i]

\* C4 (amended): when peak_search stops, a bin holding the global maximum of
\* the working matrix is below the threshold of its own index; weaker bins at
\* indices with a lower threshold may still pass theirs.
C4_MaxBinBelow ==
  pc = "done" =>
    \E n \in Rows : \E i \in Cols :
      /\ \A m \in Rows : \A j \in Cols :
           xc_incoherent_working[m][j] <= xc_incoherent_working[n][i]
      /\ \A j \in Cols :
           xc_incoherent_working[n][j] = xc_incoherent_working[n][i] => i <= j
      /\ xc_incoherent_working[n][i] < Z_th1[i]

C4_Witness ==
  /\ pc = "done"
  /\ Len(cells) >= 1
  /\ \E n \in Rows : \E i \in Cols :
       /\ xc_incoherent_working[n][i] > 0
       /\ xc_incoherent_working[n][i] >= Z_th1[i]

\* C5 (as claimed): the loop reaches its stop condition after at most
\* 3*NSamp (3*9600) emitted cells, whatever the threshold vector.
C5_AtMostAllBins == Len(cells) <= NPss * NSamp

\* C6 (as claimed): no two emitted cells with the same n_id_2 have sample
\* indices ind separated by less than SuppArm (274) samples, circularly.
C6_IndApart ==
  \A i \in CellIdx : \A j \in CellIdx :
    (i < j /\ cells[i].n_id_2 = cells[j].n_id_2)
      => ~(CircDist(cells[i].ind, cells[j].ind) < SuppArm)

\* C6 (amended): once a peak at (n_id_2, peak_ind) is emitted, every bin of
\* that n_id_2 within SuppArm (274) samples of peak_ind stays zero in the
\* working matrix, so a later cell with the same n_id_2 and positive pss_pow
\* has its peak position more than SuppArm samples away; the refined ind of
\* two such cells may still be closer than that.
C6_PeaksApart ==
  /\ \A k \in CellIdx : \A i \in Cols :
       CircDist(i, PeakCol(k)) <= SuppArm => xc_incoherent_working[PeakRow(k)][i] = 0
  /\ \A i \in CellIdx : \A j \in CellIdx :
       (i < j /\ PeakRow(i) = PeakRow(j) /\ cells[j].pss_pow > 0)
         => CircDist(PeakCol(i), PeakCol(j)) > SuppArm

C6_Witness ==
  /\ pc = "done"
  /\ ZPositive
  /\ Len(cells) >= 2
  /\ PeakRow(1) = PeakRow(2)
  /\ PeakCol(1) >= ds_comb_arm
  /\ PeakCol(2) >= ds_comb_arm
  /\ cells[1].ind = cells[2].ind

\* C7 (as claimed): after a peak at (p, idx) is emitted, the bins of the
\* other n_id_2 within SuppArm (274) samples of idx whose power is within
\* 8 dB of the peak are zeroed, so no such peer is emitted later.
C7_PeersCancelled ==
  \A i \in CellIdx : \A j \in CellIdx :
    (i < j /\ PeakRow(j) # PeakRow(i) /\ CircDist(PeakCol(i), PeakCol(j)) <= SuppArm)
      => ~(cells[j].pss_pow > 0 /\ ~BelowDb(cells[j].pss_pow, cells[i].pss_pow, -8))

\* C8: after each emission every bin below peak - 12 dB is zero, and with
\* every Z_th1 entry positive a later cell has pss_pow >= 10^(-1.2) times the
\* pss_pow of every earlier cell.
C8_WithinTwelveDb ==
  /\ Len(cells) > 0 =>
       \A n \in Rows : \A i \in Cols :
         \/ xc_incoherent_working[n][i] = 0
         \/ ~BelowDb(xc_incoherent_working[n][i], cells[Len(cells)].pss_pow, -12)
  /\ ZPositive =>
       \A i \in CellIdx : \A j \in CellIdx :
         i < j => ~BelowDb(cells[j].pss_pow, cells[i].pss_pow, -12)

C8_Witness ==
  /\ pc = "done"
  /\ ZPositive
  /\ Len(cells) = 1
  /\ \E n \in Rows : \E i \in Cols :
       /\ n # PeakRow(1)
       /\ xc_incoherent_collapsed_pow[n][i] > 0
       /\ xc_incoherent_collapsed_pow[n][i] >= Z_th1[i]
       /\ xc_incoherent_working[n][i] = 0

(***************************************************************************)
(* Properties of sss_detect.                                               *)
(***************************************************************************)
\* The winning likelihood, and n times its distance to the mean of all
\* log-likelihoods and n*(n-1) times their variance.
WinningLik == SetMax({LEntry(log_lik_nrm, log_lik_ext, x) : x \in LIndex})
WinExcessN == (LCount * WinningLik) - LSum(log_lik_nrm, log_lik_ext)
VarianceNN == (LCount * LSumSq(log_lik_nrm, log_lik_ext))
                - (LSum(log_lik_nrm, log_lik_ext) * LSum(log_lik_nrm, log_lik_ext))
\* winning likelihood >= mean + thresh2_n_sigma * stddev
PassesSigmaGate ==
  (WinExcessN * WinExcessN) * (LCount - 1)
    >= (thresh2_n_sigma * thresh2_n_sigma) * LCount * VarianceNN

\* C9: sss_detect writes n_id_1, cp_type, frame_start and duplex_mode into
\* the returned record exactly when the winning likelihood is at least
\* mean + thresh2_n_sigma * stddev of all log-likelihoods; otherwise the
\* returned record equals the input; the other fields never change.
C9_GateDecidesWrite ==
  sss_pc = "done" =>
    /\ PassesSigmaGate <=>
         /\ cell_out.n_id_1 # cell.n_id_1
         /\ cell_out.cp_type # cell.cp_type
         /\ cell_out.frame_start # cell.frame_start
         /\ cell_out.duplex_mode # cell.duplex_mode
    /\ PassesSigmaGate =>
         /\ cell_out.n_id_1 \in NId1Set
         /\ cell_out.cp_type \in {"NORMAL", "EXTENDED"}
         /\ cell_out.frame_start = frame_start
         /\ cell_out.duplex_mode = tdd_flag
    /\ ~PassesSigmaGate => cell_out = cell
    /\ cell_out.n_id_2 = cell.n_id_2
    /\ cell_out.ind = cell.ind
    /\ cell_out.freq = cell.freq
    /\ cell_out.pss_pow = cell.pss_pow
    /\ cell_out.fc_requested = cell.fc_requested
    /\ cell_out.fc_programmed = cell.fc_programmed

C9_Witness ==
  /\ sss_pc = "done"
  /\ thresh2_n_sigma > 0
  /\ VarianceNN > 0
  /\ cell_out.n_id_1 = NId1 - 1
  /\ cell_out.cp_type = "NORMAL"
  /\ cell_out.duplex_mode = 1

\* C10: the frame_start computed by sss_detect lies in
\* [-0.5, (2*9600 - 0.5) * 16/FS_LTE * fs_programmed * k_factor), for both
\* duplex modes, both CP types and both half-orderings.
C10_FrameStartWrapped ==
  sss_pc = "done" =>
    /\ 2 * frame_start >= 0 - FsScale
    /\ 2 * KDen * frame_start < ((4 * HalfFrame) - 1) * FsRatio * k_factor * FsScale
    /\ cell_out.frame_start # NaN => cell_out.frame_start = frame_start

C10_Witness ==
  /\ sss_pc = "done"
  /\ tdd_flag = 1
  /\ cell.ind \in 0 .. (HalfFrame - 1)
  /\ cp_type_flag_of(log_lik_nrm, log_lik_ext) = 1
  /\ ll_col_of(log_lik_ext) = 0
  /\ k_factor # KDen
  /\ cell_out.frame_start = frame_start
  /\ frame_start # frame_start_raw(cell, 1, 1, 0, k_factor)

\* C11: the base term of frame_start is selected by both the duplex mode
\* and the CP type: in each of the four cases, and for an FDD extended-CP
\* cell in particular, the frame_start that sss_detect derives is not the
\* one the same inputs give under the other CP type.
C11_BaseTermByDuplexAndCp ==
  sss_pc = "done" =>
    frame_start #
      frame_start_of(cell, tdd_flag,
                     1 - cp_type_flag_of(log_lik_nrm, log_lik_ext),
                     ll_col_of(log_lik_of(log_lik_nrm, log_lik_ext)), k_factor)

(***************************************************************************)
(* Properties of decode_mib.                                               *)
(***************************************************************************)
\* The port counts in the order of the claim, and the hypothesis that is
\* tried k-th when frame_timing_guess is the outer loop.
PortOrder == <<1, 2, 4>>
HypothesisAt(k) == <<(k - 1) \div 3, PortOrder[((k - 1) % 3) + 1]>>
LastAttempt == mib_attempts[Len(mib_attempts)]

\* sfn_high as the unsigned number held in bits 6..13 of the block.
SfnHighOf(c) ==
  (128 * c[6]) + (64 * c[7]) + (32 * c[8]) + (16 * c[9])
  + (8 * c[10]) + (4 * c[11]) + (2 * c[12]) + c[13]
Matched == mib_pc = "done" /\ mib_attempts # << >> /\ LastAttempt[3]

\* C12: decode_mib tries frame_timing_guess 0..3 in the outer loop and
\* n_ports 1, 2, 4 in the inner loop, stops at the first hypothesis whose
\* CRC matches and returns the record populated from it: at most twelve
\* attempts are made, only the last one can have matched, the routine has
\* returned after a match or after the twelfth attempt, and the returned
\* n_ports and sfn are those of the matching hypothesis.
C12_FirstMatchInOrder ==
  /\ Len(mib_attempts) <= 12
  /\ \A k \in 1 .. Len(mib_attempts) :
       /\ mib_attempts[k][1] = HypothesisAt(k)[1]
       /\ mib_attempts[k][2] = HypothesisAt(k)[2]
       /\ k < Len(mib_attempts) => ~mib_attempts[k][3]
  /\ mib_pc = "run" =>
       /\ Len(mib_attempts) < 12
       /\ \A k \in 1 .. Len(mib_attempts) : ~mib_attempts[k][3]
       /\ <<frame_timing_guess, n_ports_of(n_ports_pre)>>
            = HypothesisAt(Len(mib_attempts) + 1)
  /\ mib_pc = "done" =>
       /\ Len(mib_attempts) >= 1
       /\ LastAttempt[3] \/ Len(mib_attempts) = 12
       /\ LastAttempt[3] =>
            /\ mib_cell_out.n_ports = LastAttempt[2]
            /\ mib_cell_out.sfn
                 = (((SfnHighOf(c_est) * 4) - LastAttempt[1]) % 1024)

C12_Witness ==
  /\ Matched
  /\ Len(mib_attempts) = 8
  /\ mib_cell_out.n_ports = 2
  /\ frame_timing_guess = 2

\* The received CRC bit that the claim pairs with computed bit b at
\* position t under port count p.
ClaimedMaskBit(b, p, t) ==
  IF p = 2 THEN 1 - b
  ELSE IF p = 4 /\ t % 2 = 1 THEN 1 - b
  ELSE b

\* C13: the CRC of the 24 payload bits is compared with the 16 received
\* CRC bits after the port mask: unchanged for 1 port, all 16 bits inverted
\* for 2 ports, the bits at positions 1,3,...,15 inverted for 4 ports; the
\* three masks differ pairwise, so one decoded block matches for at most one
\* port count.
C13_PortMask ==
  mib_attempts # << >> =>
    /\ LastAttempt[3] <=>
         \A t \in 0 .. 15 :
           c_est[24 + t] = ClaimedMaskBit(crc_est[t], LastAttempt[2], t)
    /\ Cardinality({p \in {1, 2, 4} : crc_match(crc_est, c_est, p)}) <= 1

C13_Witness ==
  /\ Matched
  /\ LastAttempt[2] = 4
  /\ \A t \in 0 .. 15 : (c_est[24 + t] # crc_est[t]) <=> (t % 2 = 1)

\* C14: on a CRC match cell.sfn = (sfn_high*4 - g) mod 1024 and
\* 0 <= sfn <= 1023, for every sfn_high in 0..255, those from 128 up that
\* do not fit the signed 8-bit sfn_temp included, and every g in 0..3.
C14_SfnInRange ==
  Matched =>
    /\ mib_cell_out.sfn = ((SfnHighOf(c_est) * 4) - frame_timing_guess) % 1024
    /\ mib_cell_out.sfn >= 0
    /\ mib_cell_out.sfn <= 1023

C14_Witness ==
  /\ Matched
  /\ SfnHighOf(c_est) = 128
  /\ frame_timing_guess = 3
  /\ mib_cell_out.sfn = 509

\* C15: whenever decode_mib returns with n_ports set, n_rb_dl is one of
\* 6, 15, 25, 50, 75, 100, for all eight values of the 3-bit bandwidth
\* field.
C15_BandwidthAssigned ==
  (mib_pc = "done" /\ mib_cell_out.n_ports # UnsetInt) =>
    mib_cell_out.n_rb_dl \in {6, 15, 25, 50, 75, 100}

\* C16: if none of the twelve hypotheses matches, the returned record
\* equals the input record field for field; no failing hypothesis writes
\* any field of it.
C16_MissLeavesCell ==
  /\ mib_pc = "run" => mib_cell_out = mib_cell
  /\ (mib_pc = "done" /\ ~LastAttempt[3]) =>
       /\ mib_cell_out = mib_cell
       /\ Len(mib_attempts) = 12

C16_Witness ==
  /\ mib_pc = "done"
  /\ Len(mib_attempts) = 12
  /\ ~LastAttempt[3]
  /\ c_est # ZeroBlock
  /\ mib_cell_out.cp_type = "EXTENDED"

(***************************************************************************)
(* Properties of pbch_extract.                                             *)
(***************************************************************************)
\* The resource elements the claim excludes: subcarrier index congruent to
\* n_id_cell modulo 3, in symbols 0 and 1, and in symbol 3 for extended CP.
ClaimedSkip(c, s, k) ==
  /\ k % 3 = ((3 * c.n_id_1) + c.n_id_2) % 3
  /\ (s \in {0, 1} \/ (s = 3 /\ c.cp_type = "EXTENDED"))
\* Symbol s of the second slot of frame f, counted from the start of the grid.
SecondSlotSymbol(c, f, s) ==
  LET n == IF c.cp_type = "NORMAL" THEN 7 ELSE 6
  IN (f * 20 * n) + n + s
ClaimedElements(c) ==
  { <<SecondSlotSymbol(c, f, s), k>> :
      <<f, s, k>> \in { x \in (0 .. 3) \X (0 .. 3) \X (0 .. 71) :
                          ~ClaimedSkip(c, x[2], x[3]) } }
Extracted == { pbch_sym[i] : i \in 1 .. Len(pbch_sym) }

\* C17 as stated: pbch_extract extracts 1920 (normal CP) or 1728 (extended
\* CP) complex soft symbols from the 72 subcarriers of the first four OFDM
\* symbols of the second slot of four consecutive frames.
C17_SymbolCount ==
  pbch_pc = "done" =>
    Len(pbch_sym) = (IF pbch_cell.cp_type = "NORMAL" THEN 1920 ELSE 1728)

\* C17 amended: pbch_extract extracts 960 (normal CP) or 864 (extended CP)
\* complex soft symbols, half of m_bit = 1920 or 1728, each read once from
\* the 72 subcarriers of the first four OFDM symbols of the second slot of
\* four consecutive frames, skipping exactly the elements whose subcarrier
\* index mod 3 equals n_id_cell mod 3 in symbols 0 and 1 (and symbol 3 for
\* extended CP); the closing assertion never fails.
C17_HalfOfMBit ==
  /\ pbch_pc # "assert"
  /\ pbch_pc = "done" =>
       /\ Len(pbch_sym) = (IF pbch_cell.cp_type = "NORMAL" THEN 960 ELSE 864)
       /\ idx = Len(pbch_sym)
       /\ Cardinality(Extracted) = Len(pbch_sym)
       /\ Extracted = ClaimedElements(pbch_cell)

C17_Witness ==
  /\ pbch_pc = "done"
  /\ pbch_cell.cp_type = "EXTENDED"
  /\ n_id_cell_of(pbch_cell) = 5
  /\ Len(pbch_sym) = 864
  /\ <<9, 0>> \in Extracted
  /\ <<9, 2>> \notin Extracted

(***************************************************************************)
(* Properties of sampling_ppm_f_search_set_by_pss.                         *)
(***************************************************************************)
\* No template's squared correlation exceeds th at a window position inside
\* the first two radio frames (four PSS periods).
NoHitInTwoFrames ==
  \A j \in Templates : \A i \in 0 .. (((4 * NSamp) - LenPss)) :
    Corr(pss_train, j, i) <= Th

\* The rows of the first and the last valid hit of column a.
FirstValid(a) ==
  SetMin({ r \in 1 .. Len(time_location_invalid_record) :
             time_location_invalid_record[r][a] = 0 })
LastValid(a) ==
  SetMax({ r \in 1 .. Len(time_location_invalid_record) :
             time_location_invalid_record[r][a] = 0 })
\* The walk has been made and no followed template has its first and last
\* valid hits floor(len/9600/2) or more PSS periods apart.
NoValidSequence ==
  /\ time_location_invalid_record # << >>
  /\ \A a \in 1 .. Len(hit_pss_fo_set_idx) :
       LastValid(a) - FirstValid(a) < NumPeriods \div 2

\* C18: sampling_ppm_f_search_set_by_pss returns ppm = NaN and leaves the
\* frequency search set unchanged, element for element, whenever no
\* template's squared correlation exceeds th within the first two radio
\* frames, or no surviving template has a valid hit sequence.
C18_FailureLeavesSet ==
  (ppm_pc = "done" /\ (NoHitInTwoFrames \/ NoValidSequence)) =>
    /\ ppm = PpmNaN
    /\ fo_search_set = fo_search_set_in

C18_Witness ==
  /\ ppm_pc = "done"
  /\ ~NoHitInTwoFrames
  /\ NoValidSequence
  /\ pss_count >= 2
  /\ Len(hit_pss_fo_set_idx) = 2
  /\ \E a \in 1 .. 2 : LastValid(a) - FirstValid(a) = (NumPeriods \div 2) - 1
  /\ ppm = PpmNaN

\* C19: whenever sampling_ppm_f_search_set_by_pss changes the frequency
\* search set it also returns a ppm that is not NaN, for one, two and three
\* or more surviving templates, those with variance <= 0.01 included.
C19_RefinedSetHasPpm ==
  (ppm_pc = "done" /\ fo_search_set # fo_search_set_in) => ppm # PpmNaN

\* The peak power of every template in the ring once it is drained.
PeakPower ==
  LET li == last_idx_of(pss_train)
  IN [j \in Templates |-> max_val_of(pss_train, j, li)]
Followed == { hit_pss_fo_set_idx[a] : a \in 1 .. Len(hit_pss_fo_set_idx) }
WithinHalf(pp) == { j \in Templates : \A x \in Templates : 2 * pp[j] >= pp[x] }

\* C20: the candidate templates passed to the periodicity check all have a
\* peak power of at least half the strongest template's peak, are ordered by
\* decreasing peak power and number at most 8 (MaxReserve) per PSS index;
\* the ones discarded for a PSS index with more are its weakest.  The walk
\* is entered with pss_count = 0.
C20_CandidatesKept ==
  (ppm_pc = "walk" /\ pss_count = 0) =>
    LET pp == PeakPower
        wh == WithinHalf(pp)
    IN /\ Followed \subseteq wh
       /\ Cardinality(Followed) = Len(hit_pss_fo_set_idx)
       /\ \A a \in 1 .. Len(hit_pss_fo_set_idx) : \A b \in a .. Len(hit_pss_fo_set_idx) :
            pp[hit_pss_fo_set_idx[a]] >= pp[hit_pss_fo_set_idx[b]]
       /\ \A a \in 1 .. Len(hit_pss_fo_set_idx) :
            hit_corr_val[1][a] = pp[hit_pss_fo_set_idx[a]]
       /\ \A p \in 0 .. 2 :
            LET kept == { j \in Followed : j \div NFreq = p }
                dropped == { j \in wh \ Followed : j \div NFreq = p }
            IN /\ Cardinality(kept) <= MaxReserve
               /\ dropped # {} => Cardinality(kept) = MaxReserve
               /\ \A j \in dropped : \A x \in kept : pp[x] >= pp[j]

C20_Witness ==
  /\ ppm_pc = "walk"
  /\ Len(hit_pss_fo_set_idx) >= 2
  /\ LET pp == PeakPower
     IN \E j \in WithinHalf(pp) \ Followed : \E x \in Followed :
          /\ j \div NFreq = x \div NFreq
          /\ pp[x] > pp[j]

(***************************************************************************)
(* Properties of the outlier rule of sampling_ppm_f_search_set_by_pss.     *)
(***************************************************************************)
\* The number of estimates equal to the one farthest from the mean.
NumDrop == Cardinality(drop_positions(ppm_store_in))
AfterOutlierBranch == agg_pc = "tail" /\ VarianceAbove(ppm_store_in)
RestOfStore == GetSeq(ppm_store_in, (1 .. Len(ppm_store_in)) \ drop_positions(ppm_store_in))

\* C21: with three or more estimates of variance above 0.01, the estimates
\* farthest from the mean are dropped if and only if their number is at most
\* 3/8 of the number of estimates; otherwise nothing is dropped and the
\* second frequency candidate is asked for.
C21_DropUpToThreeEighths ==
  AfterOutlierBranch =>
    IF 8 * NumDrop <= 3 * Len(ppm_store_in)
    THEN ppm_store = RestOfStore /\ ~extra_frequency_flag
    ELSE ppm_store = ppm_store_in /\ extra_frequency_flag

\* C21 (amended): they are dropped, and ppm is the mean of the rest, if and
\* only if their number is strictly below 3/8 of the number of estimates; at
\* 3/8 and above nothing is dropped, ppm is the mean of all estimates and
\* the second frequency candidate is asked for.
C21_DropBelowThreeEighths ==
  AfterOutlierBranch =>
    IF 8 * NumDrop < 3 * Len(ppm_store_in)
    THEN /\ ppm_store = RestOfStore
         /\ ppm = <<SeqSum(RestOfStore), Len(RestOfStore) * PpmDen>>
         /\ ~extra_frequency_flag
    ELSE /\ ppm_store = ppm_store_in
         /\ ppm = <<SeqSum(ppm_store_in), Len(ppm_store_in) * PpmDen>>
         /\ extra_frequency_flag

\* Three of eight estimates are the farthest: nothing was dropped.
C21_Witness ==
  /\ AfterOutlierBranch
  /\ Len(ppm_store_in) = 8
  /\ NumDrop = 3
  /\ ppm_store = ppm_store_in
  /\ extra_frequency_flag

(***************************************************************************)
(* Properties of xc_correlate and of the routines on the capture buffer.   *)
(***************************************************************************)
\* The positions that the schedule gave to worker w, done or not.
OwnPositions(w) == { kk \in XcPositions : share[kk] = w \/ share[kk] = 0 - w }

WritesApart ==
  /\ \A w \in Workers : wr[w] \subseteq { LocXc(<<xc_t, kk, xc_foi>>) : kk \in OwnPositions(w) }
  /\ \A w1, w2 \in Workers : w1 # w2 => wr[w1] \cap (wr[w2] \cup rd[w2]) = {}

\* C22: in the parallel loop of xc_correlate each worker writes only the
\* elements xc[t][k][foi] of its own positions k, no worker writes what
\* another worker writes or reads, and the template is rewritten only
\* between parallel regions.
C22_WorkersWriteApart == []WritesApart /\ [][temp' # temp => xc_pc = "seq"]_vars

\* Every worker has written and one of them is inside the loop body again.
C22_Witness ==
  /\ xc_pc = "par"
  /\ \A w \in Workers : wr[w] # {}
  /\ \E w \in Workers : priv_k[w] # -1

\* C23: no routine changes the capture buffer it is handed: every sample
\* keeps the value it had when the buffer was filled.
C23_BufferNeverChanges == capbuf = capbuf_filled

\* The FIR filter centred on sample x, samples outside the buffer taken as 0.
CentredFir(coef, buf) ==
  LET half == (Len(coef) - 1) \div 2
      tap(x, j) == IF (x + half) - j \in DOMAIN buf THEN coef[j + 1] * buf[(x + half) - j] ELSE 0
  IN [x \in DOMAIN buf |-> SeqSum([a \in 1 .. Len(coef) |-> tap(x, a - 1)])]

\* C23 (amended): the capture buffer changes only in a call of filter_my,
\* which replaces it by its FIR-filtered samples; every other routine
\* leaves every sample as it was.
C23_OnlyFilterMyChanges ==
  [][ /\ capbuf' # capbuf => n_calls' = n_calls + 1 /\ stage_out'.name = "filter_my"
      /\ n_calls' = n_calls + 1 /\ stage_out'.name = "filter_my"
           => capbuf' = CentredFir(stage_out'.coef, capbuf) ]_vars

\* filter_my has changed a buffer that an earlier routine had left alone.
C23_Witness ==
  /\ n_calls = 2
  /\ stage_out.name = "filter_my"
  /\ stage_out.buf = capbuf_filled
  /\ capbuf # capbuf_filled

\* xc as it is with k_factor taken from the frequency offsets alone.
XcTwisted ==
  [s \in XcSlots |->
     acc_of(temp_of(s[1], f_search_set[s[3]], fc_requested_val - f_search_set[s[3]]),
            capbuf_filled, s[2])]

\* C24: with sampling_carrier_twist the outputs of xc_correlate, xc_combine,
\* sss_detect, pss_sss_foe and extract_tfg are fixed by the inputs other than
\* k_factor: every use of k_factor sees (fc_requested - f)/fc_programmed.
C24_TwistIgnoresKFactorIn ==
  sampling_twist =>
    /\ xc_pc = "done" => xc = XcTwisted
    /\ stage_out.name = "xc_combine" =>
         stage_out.k = [a \in 1 .. NFreq |-> fc_requested_val - f_search_set[a - 1]]
    /\ stage_out.name \in {"sss_detect", "pss_sss_foe", "extract_tfg"} =>
         \A u \in DOMAIN stage_out.k : stage_out.k[u] = fc_requested_val - stage_out.freq

\* A routine has run with a k_factor other than the one handed in.
C24_Witness ==
  /\ sampling_twist
  /\ xc_pc = "done"
  /\ stage_out.name = "pss_sss_foe"
  /\ stage_out.k[1] # k_factor_in

(***************************************************************************)
(* Properties of ce_interp_hex.                                            *)
(***************************************************************************)
HexSafe ==
  /\ hex_pc # "fault"
  /\ hex_pc = "walk" => /\ triangle[2].y_symnum # triangle[3].y_symnum
                        /\ top_row_last_used < Len(top_row_x)
                        /\ bot_row_last_used < Len(bot_row_x)
  /\ hex_pc = "done" => \A r \in 1 .. spacing : \A x \in 0 .. LastSc : painted[r][x] = 1
  /\ \A r \in 1 .. spacing : \A x \in 0 .. LastSc : painted[r][x] <= 1

HexMoves ==
  /\ \A r \in 1 .. spacing : x_offset'[r] >= x_offset[r]
  /\ triangle' # triangle =>
       IF triangle[3].y_symnum = 0
       THEN bot_row_last_used' = bot_row_last_used + 1 /\ top_row_last_used' = top_row_last_used
       ELSE top_row_last_used' = top_row_last_used + 1 /\ bot_row_last_used' = bot_row_last_used

\* C25: for the shifts (s, (s+3) mod 6) and every distance between two
\* adjacent RS rows the triangle walk ends; the paint cursors only move
\* right, each step takes the next vertex of the row opposite to the newest
\* vertex, no vertex past the end of a row is read, no edge joins two
\* vertices of one row, and at the end every subcarrier of every row below
\* the upper RS row, down to the lower RS row, is painted exactly once.
C25_HexWalkCovers == <>(hex_pc = "done") /\ []HexSafe /\ [][HexMoves]_vars

\* The walk has ended between rows four symbols apart with both rows
\* extended on both sides.
C25_Witness ==
  /\ hex_pc = "done"
  /\ spacing = 4
  /\ hex_shift = 1
  /\ top_row_last_used = Len(top_row_x) - 1
  /\ bot_row_last_used = Len(bot_row_x) - 1

(***************************************************************************)
(* Properties of sss_detect_getce_sss.                                     *)
(***************************************************************************)
\* The 128 samples from start on are samples of the capture buffer.
InBuffer(start) == start >= 0 /\ start + 128 <= CapLength

\* C26: for every peak position 0 <= ind < 9600, both duplex modes and
\* k_factor = 1, the PSS window and the two SSS windows read at every PSS
\* position lie inside the capture buffer.
C26_WindowsInsideBuffer ==
  getce_k > 0 => /\ InBuffer(pss_dft_location)
                 /\ InBuffer(sss_ext_location)
                 /\ InBuffer(sss_nrm_location)

(***************************************************************************)
(* The frequency search set left by sampling_ppm_f_search_set_by_pss.      *)
(***************************************************************************)
SetChanged ==
  /\ ppm_pc = "done"
  /\ time_location_invalid_record # << >>
  /\ valid_idx_of(time_location_invalid_record) # << >>

NumEstimates == Len(valid_idx_of(time_location_invalid_record))

FromOriginal(fo) == \A a \in 1 .. Len(fo) : \E b \in 1 .. NFreq : fo[a] = fo_search_set_in[b]

NoDuplicate(fo) == \A a, b \in 1 .. Len(fo) : a # b => fo[a] # fo[b]

Ascending(fo) == \A a, b \in 1 .. Len(fo) : a < b => fo[a] < fo[b]

\* C27: whenever the function has rewritten the frequency search set, the
\* set is non-empty, holds only frequencies of the original set, holds no
\* frequency twice and is in ascending order.
C27_RefinedSetAscending ==
  SetChanged => /\ fo_search_set # << >>
                /\ FromOriginal(fo_search_set)
                /\ NoDuplicate(fo_search_set)
                /\ Ascending(fo_search_set)

\* C27 amended: non-empty, from the original set and without duplicates on
\* every path; ascending unless exactly two estimates disagree.
C27_RefinedSetDistinct ==
  SetChanged => /\ fo_search_set # << >>
                /\ FromOriginal(fo_search_set)
                /\ NoDuplicate(fo_search_set)
                /\ (NumEstimates # 2 \/ ~Disagree(ppm_store_of(time_location, time_location_invalid_record)))
                     => Ascending(fo_search_set)

C27_Witness ==
  /\ SetChanged
  /\ NumEstimates = 2
  /\ Disagree(ppm_store_of(time_location, time_location_invalid_record))
  /\ Len(fo_search_set) = 2
  /\ ~Ascending(fo_search_set)

(***************************************************************************)
(* The rows written by the periodicity walk.                               *)
(***************************************************************************)
\* C28: the hit counter stays below ceil(len/pss_period), so every row the
\* walk writes is one of the rows allocated.
C28_WalkWithinRows ==
  ppm_pc \in {"walk", "estimate", "overrun"} =>
    /\ pss_count < max_num_hit
    /\ Len(time_location) <= max_num_hit

(***************************************************************************)
(* The bounds of pbch_extract.                                             *)
(***************************************************************************)
\* C29: for every cell identity and both CP types pbch_extract never
\* writes pbch_sym or pbch_ce at or past position m_bit/2, reads only rows
\* of the grid that decode_mib selected for the frame-timing guess, and
\* ends with idx = m_bit/2 (960 with normal CP, 864 with extended CP), so
\* that the assertion holds.
C29_ExtractWithinBounds ==
  /\ pbch_pc # "assert"
  /\ pbch_pc \in {"loop", "done"} =>
       /\ idx <= m_bit_of(pbch_cell) \div 2
       /\ idx = Len(pbch_sym)
       /\ \A a \in 1 .. Len(pbch_sym) :
            pbch_sym[a][1] >= 0 /\ pbch_sym[a][1] < tfg_try_rows(pbch_cell)
  /\ pbch_pc = "done" =>
       idx = (IF pbch_cell.cp_type = "NORMAL" THEN 960 ELSE 864)

\* pbch_extract has returned for the cell of identity 503 with extended CP.
C29_Witness ==
  /\ pbch_pc = "done"
  /\ n_id_cell_of(pbch_cell) = 503
  /\ pbch_cell.cp_type = "EXTENDED"
  /\ idx = 864
  /\ pbch_sym[Len(pbch_sym)][1] = tfg_try_rows(pbch_cell) - 3

(***************************************************************************)
(* The lock order of display_thread.                                       *)
(***************************************************************************)
\* The mutexes held are a prefix of tracked_cell_list.mutex, fifo_mutex and
\* meas_mutex of the cell the iterator is on, or sampbuf_sync.mutex alone.
HeldInOrder ==
  \/ disp_held = << >>
  \/ disp_held = <<SampbufMutex>>
  \/ disp_held = <<ListMutex>>
  \/ disp_held = <<ListMutex, FifoMutex(disp_it)>> /\ disp_it <= n_tracked
  \/ disp_held = <<ListMutex, FifoMutex(disp_it), MeasMutex(disp_it)>> /\ disp_it <= n_tracked

Holds(m) == \E a \in 1 .. Len(disp_held) : disp_held[a] = m

\* tracked_cell_list.mutex is taken with nothing held, and the iterator
\* moves on with nothing but tracked_cell_list.mutex held.
TakenInOrder ==
  /\ (~Holds(ListMutex) /\ Holds(ListMutex)') => disp_held = << >>
  /\ disp_it' # disp_it /\ disp_pc # "dropped" => disp_held' = <<ListMutex>>

\* C30: in every pass of the refresh loop sampbuf_sync.mutex is released
\* before tracked_cell_list.mutex is taken; under tracked_cell_list.mutex
\* the thread takes fifo_mutex and then meas_mutex of one cell at a time
\* and releases both before it goes to the next cell; no mutex is held in
\* getch() or at exit.
C30_LockOrder ==
  /\ []HeldInOrder
  /\ [](disp_pc \in {"getch", "exit", "top", "dropped"} => disp_held = << >>)
  /\ [][TakenInOrder]_vars

\* The thread is in getch() after a pass over MaxTracked tracked cells, paused.
C30_Witness ==
  /\ disp_pc = "getch"
  /\ n_tracked = MaxTracked
  /\ disp_it = MaxTracked + 1
  /\ disp_held = << >>
  /\ pause

\* peak_search on its own.
Init == PeakInit /\ SssIdle /\ MibIdle /\ PbchIdle /\ PpmIdle /\ AggIdle /\ AcqIdle /\ HexIdle /\ GetceIdle /\ DispIdle

Next == PeakSearchBreak \/ PeakSearchEmit

Spec == Init /\ [][Next]_vars

\* sss_detect on its own.
InitSss == PeakIdle /\ SssInit /\ MibIdle /\ PbchIdle /\ PpmIdle /\ AggIdle /\ AcqIdle /\ HexIdle /\ GetceIdle /\ DispIdle

NextSss == SssDetect

SpecSss == InitSss /\ [][NextSss]_vars

\* decode_mib on its own.
InitMib == PeakIdle /\ SssIdle /\ MibInit /\ PbchIdle /\ PpmIdle /\ AggIdle /\ AcqIdle /\ HexIdle /\ GetceIdle /\ DispIdle

NextMib == DecodeMibMatch \/ DecodeMibMiss

SpecMib == InitMib /\ [][NextMib]_vars

\* decode_mib with every sfn_high in the matching block.
NextMibSfn == DecodeMibMatchSweep \/ DecodeMibMissSweep

SpecMibSfn == InitMib /\ [][NextMibSfn]_vars

\* pbch_extract on its own.
InitPbch == PeakIdle /\ SssIdle /\ MibIdle /\ PbchInit /\ PpmIdle /\ AggIdle /\ AcqIdle /\ HexIdle /\ GetceIdle /\ DispIdle

NextPbch == PbchExtractSym \/ PbchExtractReturn

SpecPbch == InitPbch /\ [][NextPbch]_vars

\* sampling_ppm_f_search_set_by_pss on its own.
InitPpm == PeakIdle /\ SssIdle /\ MibIdle /\ PbchIdle /\ PpmInit /\ AggIdle /\ AcqIdle /\ HexIdle /\ GetceIdle /\ DispIdle

NextPpm ==
  \/ PssMovingCorrHit
  \/ PssMovingCorrMiss
  \/ PpmReserve
  \/ PpmWalkStep
  \/ PpmWalkBreak
  \/ PpmNoValid
  \/ PpmAggregate

SpecPpm == InitPpm /\ [][NextPpm]_vars

\* The outlier rule on its own.
InitAgg == PeakIdle /\ SssIdle /\ MibIdle /\ PbchIdle /\ PpmIdle /\ AggInit /\ AcqIdle /\ HexIdle /\ GetceIdle /\ DispIdle

NextAgg == PpmOutlierSkip \/ PpmOutlierKeep \/ PpmOutlierDrop

SpecAgg == InitAgg /\ [][NextAgg]_vars

\* xc_correlate and then the other routines on the capture buffer.
InitAcq == PeakIdle /\ SssIdle /\ MibIdle /\ PbchIdle /\ PpmIdle /\ AggIdle /\ AcqInit /\ HexIdle /\ GetceIdle /\ DispIdle

NextAcq ==
  \/ XcFork
  \/ \E w \in Workers : XcWorkerAcc(w)
  \/ \E w \in Workers : XcWorkerStore(w)
  \/ XcJoin
  \/ XcReturn
  \/ SpEst
  \/ XcCombine
  \/ PpmPreSearch
  \/ SssDetectStage
  \/ PssSssFoe
  \/ ExtractTfg
  \/ FilterMy

SpecAcq == InitAcq /\ [][NextAcq]_vars

\* The triangle walk of ce_interp_hex on its own; the loop keeps running.
InitHex == PeakIdle /\ SssIdle /\ MibIdle /\ PbchIdle /\ PpmIdle /\ AggIdle /\ AcqIdle /\ HexInit /\ GetceIdle /\ DispIdle

NextHex == HexStepBreak \/ HexStepNext

SpecHex == InitHex /\ [][NextHex]_vars /\ WF_vars(NextHex)

\* sss_detect_getce_sss on its own.
InitGetce == PeakIdle /\ SssIdle /\ MibIdle /\ PbchIdle /\ PpmIdle /\ AggIdle /\ AcqIdle /\ HexIdle /\ GetceInit /\ DispIdle

NextGetce == GetceSkip \/ GetceNoSkip \/ GetceWindows \/ GetceCombine

SpecGetce == InitGetce /\ [][NextGetce]_vars

\* display_thread on its own.
InitDisp == PeakIdle /\ SssIdle /\ MibIdle /\ PbchIdle /\ PpmIdle /\ AggIdle /\ AcqIdle /\ HexIdle /\ GetceIdle /\ DispInit

NextDisp ==
  \/ DispLockSampbuf
  \/ DispUnlockSampbuf
  \/ DispLockList
  \/ DispLockFifo
  \/ DispLockMeas
  \/ DispPrintCell
  \/ DispUnlockList
  \/ DispKeyQuit
  \/ DispKeyPause
  \/ DispKeyOther

SpecDisp == InitDisp /\ [][NextDisp]_vars

=============================================================================
